---- MODULE Spec2Model ----
(***************************************************************************)
(* The MCP protocol client of komorebi (backend/app/mcp/client.py): one    *)
(* MCPClient, the child processes it spawns, its stdout reader tasks and   *)
(* the coroutines that call connect(), disconnect() and call_tool() on it  *)
(* on one asyncio event loop.  A step of the model is what one coroutine   *)
(* does between two suspension points (await).                             *)
(***************************************************************************)
EXTENDS Naturals, Sequences, FiniteSets, TLC

\* ------------------------------------------------------------- bounds
NTasks == 2          \* coroutines that call the client's methods
MaxSpawns == 2       \* child processes started over a run; a line that
                     \* answers no open request counts as one, but for
                     \* an unparsable line of a superseded child
MaxRequests == 4     \* highest request id of a run
MaxExtra == 1        \* lines a child writes that answer no open request
MaxStalls == 1       \* children that let their stdin pipe fill up
NServers == 3        \* server descriptors registered with the registry
MaxLive == 1         \* live children of a server when the API connects it
MaxInvalid == 1      \* descriptors with a command that cannot be run
MaxDisabled == 1     \* descriptors with enabled = False
NClients == 2        \* clients of the registry seen with all their fields
MaxIds == 3          \* requests a client writes
NCalls == 2          \* concurrent calls of MCPService.call_tool()
MaxChunks == 3       \* rows in the chunk store
NKeys == 2           \* keys of the map given to resolve_env_vars()

Tasks == 1..NTasks
NoProc == 0          \* self._process is None / self._reader_task is None
NoError == "None"    \* config.last_error is None
\* The arguments of the call_tool that takes request id n: distinct per call.
Args == [n \in 0..MaxRequests |-> <<"arg", n>>]

VARIABLES
    status,       \* config.status
    last_error,   \* config.last_error
    process,      \* self._process: a process number, or NoProc
    reader_task,  \* self._reader_task: a reader number, or NoProc
    request_id,   \* self._request_id
    pending,      \* self._pending_requests: id -> the task that owns the future
    tools,        \* self._tools: the tool names of the catalog
    procs,        \* the child processes spawned so far
    readers,      \* the _read_responses tasks created so far
    extra,        \* unsolicited lines written so far
    pc,           \* where each calling coroutine is suspended
    meth,         \* the method of the task's _request
    rid,          \* the request_id local of the task's _request
    fut,          \* the future of the task's _request
    dp,           \* the process a disconnect or a drain waits for
    ret,          \* how the call that ended in the last step ended
    order,        \* the keys of registry._configs and ._clients, in dict order
    srv,          \* per server: its descriptor and the state of its client
    bulk,         \* the coroutine inside connect_all() or disconnect_all()
    api,          \* the coroutine of an API request inside a registry call
    clients,      \* registry._clients with every field of each MCPClient
    chunks,       \* the chunk store: the rows that ChunkRepository has created
    calls,        \* the coroutines inside MCPService.call_tool()
    sec           \* a call of SecretFactory.resolve_env_vars() and its result

client == <<status, last_error, process, reader_task, request_id, pending, tools>>
locals == <<pc, meth, rid, fut, dp>>
registry == <<order, srv, bulk, api>>
service == <<chunks, calls>>
\* What a step of the one client leaves alone.
outside == <<order, srv, bulk, api, clients, chunks, calls, sec>>
vars == <<status, last_error, process, reader_task, request_id, pending, tools,
          procs, readers, extra, pc, meth, rid, fut, dp, ret,
          order, srv, bulk, api, clients, chunks, calls, sec>>

\* ------------------------------------------------------------ values
\* How a call ended: a value returned or an exception raised.  id is the
\* request id of a call_tool that sent its request, the child a disconnect
\* saw exit, 0 otherwise; exc is the exception a connect caught.  NoRet: no
\* call ended in the step.
Returned(op, v, id) ==
    [op |-> op, kind |-> "return", val |-> v, id |-> id, exc |-> <<>>]
Raised(op, e, m, id) ==
    [op |-> op, kind |-> "raise", val |-> <<e, m>>, id |-> id, exc |-> <<>>]
Caught(op, v, e, m) ==
    [op |-> op, kind |-> "return", val |-> v, id |-> 0, exc |-> <<e, m>>]
NoRet == [op |-> "none", kind |-> "none", val |-> <<>>, id |-> 0, exc |-> <<>>]

\* asyncio futures.
FutNone == [st |-> "none", val |-> <<>>]
FutPending == [st |-> "pending", val |-> <<>>]
FutResult(body) == [st |-> "result", val |-> body]
FutException(m) == [st |-> "exception", val |-> <<m>>]

\* str(e) of the exceptions connect() catches.
SpawnMessage == "No such file or directory"
NotConnectedMessage == "Not connected to MCP server"
TimeoutMessage == ""
ConnectionLostMessage == "Connection lost"

\* A JSON-RPC request ({"jsonrpc","id","method","params"}); a notification has no id.
Request(id, m, a) == [id |-> id, method |-> m, arg |-> a]
Notification(m) == [id |-> 0, method |-> m, arg |-> ""]
\* The requests of a run: the handshake's and the tool calls.
Requests ==
    {Request(id, m, "") : id \in 1..MaxRequests, m \in {"initialize", "tools/list"}}
    \cup {Request(id, "tools/call", Args[id]) : id \in 1..MaxRequests}

\* A child process: the requests it has read and not answered, whether it
\* got the initialized notification, the lines of its stdout that no reader
\* has taken yet, the signals sent to it, and its stdin pipe: "room" while
\* the child keeps up with what is written, "full" when the child does not
\* read and the transport buffer is over its high-water mark (drain
\* suspends), "read" when the child has read it empty again.
NewProc == [state |-> "running", open |-> {}, notified |-> FALSE,
            out |-> <<>>, termed |-> FALSE, killed |-> FALSE, pipe |-> "room"]
\* The client lets go of child p, which has exited: what is left in its
\* stdout is never read.
Forget(ps, p) == [ps EXCEPT ![p].out = <<>>]
\* A _read_responses task: created ("new"), waiting in readline on the stdout
\* of process `on` ("reading"), returned ("done") or ended by an exception
\* ("failed").
NewReader == [state |-> "new", on |-> NoProc]
Ended(rs, r, how) == [rs EXCEPT ![r] = [state |-> how, on |-> NoProc]]

\* stdin.write(data): a closed pipe drops the bytes.
Write(ps, p, msg) ==
    IF ps[p].state # "running" THEN ps
    ELSE IF msg.id = 0 THEN [ps EXCEPT ![p].notified = TRUE]
    ELSE [ps EXCEPT ![p].open = @ \cup {msg}]

\* A child that exits: what it has read is gone with it.
Exit(ps, p) == [ps EXCEPT ![p].state = "exited", ![p].open = {},
                          ![p].notified = FALSE]

\* dict assignment and dict.pop(key, None).
Put(d, k, v) == [x \in (DOMAIN d) \cup {k} |-> IF x = k THEN v ELSE d[x]]
\* A variant of Pop that leaves the entry in the table.
KeepEntry(d, k) == d
Pop(d, k) == [x \in (DOMAIN d) \ {k} |-> d[x]]

\* ----------------------------------------------------------- the child
\* What a well-behaved server answers to a request (the echo server of
\* scripts/hammer_mcp.py): a catalog for tools/list, the arguments for tools/call.
Catalog == <<"echo">>
Echo(a) == <<"Echo", a>>
ResultFor(req) ==
    IF req.method = "tools/list" THEN Catalog
    ELSE IF req.method = "tools/call" THEN Echo(req.arg)
    ELSE <<>>

\* A line of the child's stdout.  kind: "result" and "error" are well-formed
\* responses; "notify" is a message without id; "garbage" does not parse as
\* JSON; "badshape" parses but is not a message object (the JSON value 5).
Line(kind, id, body) == [kind |-> kind, id |-> id, body |-> body]
ErrorBody == <<"boom">>
ExtraKinds == {"garbage", "badshape", "notify", "result"}

Unread(p) == procs[p].out # <<>>
AtEOF(p) == procs[p].state = "exited" /\ ~Unread(p)

\* ------------------------------------------------- the registry's values
\* A registered server: the enabled flag of its descriptor, whether its
\* command can be spawned, and its client seen from the registry: status,
\* whether self._process is set, the children of it that are alive, catalog.
NewServer(en, va) ==
    [enabled |-> en, valid |-> va, status |-> "disconnected",
     held |-> FALSE, live |-> 0, tools |-> <<>>, reg |-> TRUE]
\* A tool of a catalog (MCPTool): its name and the server that has it.
Tool(n, s) == [name |-> n, server_id |-> s]
\* The tool names: name 0 is a tool every server has, name 1 a tool that
\* every other server has, name 2 a tool no server has.
ToolNames == 0..2
\* What the child of server s answers to tools/list.
CatalogOf(s) == IF s % 2 = 1 THEN <<Tool(0, s), Tool(1, s)>> ELSE <<Tool(0, s)>>
\* A coroutine inside a client's connect() or disconnect(): the index in
\* `order` of the server and the await it is suspended at.
NoCall == [at |-> 0, phase |-> "none"]
Idle == [op |-> "idle", at |-> 0, phase |-> "none", results |-> <<>>,
         used |-> 0, left |-> 0]

\* A new MCPClient (MCPClient.__init__): every client has its own fields.
Clients == 1..NClients
NewClient ==
    [status |-> "disconnected", tools |-> <<>>, process |-> FALSE,
     request_id |-> 0, pending |-> {}]
\* The requests that call MCPService.call_tool(); none has called yet.
Callers == 1..NCalls
ServiceCall(at, capture, outcome) ==
    [at |-> at, capture |-> capture, outcome |-> outcome]
NoServiceCall == ServiceCall("idle", FALSE, <<>>)
\* resolve_env_vars() has not been called: the map it will be given,
\* whether the keyring package is installed, whether the keyring backend
\* works, and no result.
SecretsCall(cfg, has, works) ==
    [asked |-> cfg, has_keyring |-> has, backend |-> works,
     done |-> FALSE, result |-> <<>>]
NoSecrets == SecretsCall(<<>>, TRUE, TRUE)

RegInit ==
    /\ order = <<>>
    /\ srv = <<>>
    /\ bulk = Idle
    /\ api = NoCall

\* ------------------------------------------------------------ Init
Base ==
    /\ status = "disconnected"
    /\ last_error = NoError
    /\ process = NoProc
    /\ reader_task = NoProc
    /\ request_id = 0
    /\ pending = <<>>
    /\ tools = <<>>
    /\ procs = <<>>
    /\ readers = <<>>
    /\ extra = 0
    /\ pc = [t \in Tasks |-> "idle"]
    /\ meth = [t \in Tasks |-> "none"]
    /\ rid = [t \in Tasks |-> 0]
    /\ fut = [t \in Tasks |-> FutNone]
    /\ dp = [t \in Tasks |-> NoProc]
    /\ ret = NoRet
    /\ RegInit
    /\ clients = [k \in Clients |-> NewClient]
    /\ chunks = <<>>
    /\ calls = [k \in Callers |-> NoServiceCall]
Init == Base /\ sec = NoSecrets

\* ------------------------------------------------------- _request
\* A variant of NextRequestId that hands out the same id again.
SameRequestId(n) == n

\* self._request_id += 1
NextRequestId(n) == n + 1

\* The call of task t ends with r (a value returned or an exception raised);
\* the coroutine's locals are gone.
Return(t, r) ==
    /\ pc' = [pc EXCEPT ![t] = "idle"]
    /\ meth' = [meth EXCEPT ![t] = "none"]
    /\ rid' = [rid EXCEPT ![t] = 0]
    /\ fut' = [fut EXCEPT ![t] = FutNone]
    /\ dp' = [dp EXCEPT ![t] = NoProc]
    /\ ret' = r

\* A variant of ConnectExcept that does not record the message.
ConnectExceptNoMessage(t, e, m) ==
    /\ status' = "error"
    /\ last_error' = last_error
    /\ Return(t, Caught("connect", <<"False">>, e, m))

\* connect()'s except clause for the exception e with str(e) = m: the status
\* and the message, and False returned.
ConnectExcept(t, e, m) ==
    /\ status' = "error"
    /\ last_error' = m
    /\ Return(t, Caught("connect", <<"False">>, e, m))

\* An exception e leaves the _request or _notify of method m of task t:
\* connect() catches it, call_tool() lets it through to its caller.
Propagate(t, m, e, msg, id) ==
    IF m = "tools/call"
    THEN /\ Return(t, Raised("call_tool", e, msg, id))
         /\ UNCHANGED <<status, last_error>>
    ELSE ConnectExcept(t, e, msg)

\* A variant of AddPending that leaves the future out of the table.
AddPendingLater(pend, id, t) == pend

\* self._pending_requests[request_id] = future, before the write: the future
\* of task t is in the table under the id.
AddPending(pend, id, t) == Put(pend, id, t)

\* The children whose stdin pipe has filled up in the run.
Stalls == Cardinality({q \in DOMAIN procs : procs[q].pipe # "room"})

\* What a run has used of MaxSpawns.
Spawns ==
    Len(procs) + Cardinality({u \in Tasks : pc[u] = "spawn"}) + extra + Stalls

\* The write of method m finds the pipe of process p full, or fills it: a
\* tools/call carries arguments of any size, and a child need not read.
Fills(ps, p, m) ==
    /\ ps[p].state = "running"
    /\ \/ ps[p].pipe = "full"
       \/ /\ m = "tools/call"
          /\ ps[p].pipe = "room"
          /\ Stalls < MaxStalls
          /\ Spawns < MaxSpawns

\* _request up to its first await that suspends: the id, the future
\* registered under it, the request line written to the stdin of process p
\* (ps is the process table the line is written into, pend the pending
\* table).  drain() returns at once while the pipe buffer has room, and the
\* task waits for the future; it suspends when the buffer is full; on the
\* pipe of a child that has exited it may raise ConnectionResetError, and the
\* finally clause removes the entry.
StartRequest(t, p, m, a, ps, pend) ==
    /\ request_id' = NextRequestId(request_id)
    /\ \/ /\ ps[p].pipe # "full" \/ ps[p].state = "exited"
          /\ procs' = Write(ps, p, Request(request_id', m, a))
          /\ rid' = [rid EXCEPT ![t] = request_id']
          /\ meth' = [meth EXCEPT ![t] = m]
          /\ fut' = [fut EXCEPT ![t] = FutPending]
          /\ pending' = AddPending(pend, request_id', t)
          /\ pc' = [pc EXCEPT ![t] = "wait"]
          /\ dp' = [dp EXCEPT ![t] = NoProc]
          /\ ret' = NoRet
          /\ UNCHANGED <<status, last_error>>
       \/ /\ Fills(ps, p, m)
          /\ procs' = [Write(ps, p, Request(request_id', m, a)) EXCEPT ![p].pipe = "full"]
          /\ rid' = [rid EXCEPT ![t] = request_id']
          /\ meth' = [meth EXCEPT ![t] = m]
          /\ fut' = [fut EXCEPT ![t] = FutPending]
          /\ pending' = AddPending(pend, request_id', t)
          /\ pc' = [pc EXCEPT ![t] = "drain"]
          /\ dp' = [dp EXCEPT ![t] = p]
          /\ ret' = NoRet
          /\ UNCHANGED <<status, last_error>>
       \/ /\ ps[p].state = "exited"
          /\ procs' = ps
          /\ pending' = Pop(pend, request_id')
          /\ Propagate(t, m, "ConnectionResetError", ConnectionLostMessage, request_id')

\* The request ids the handshakes under way will still take.
Reserved ==
    2 * Cardinality({u \in Tasks : pc[u] = "spawn"})
    + Cardinality({u \in Tasks : /\ pc[u] \in {"wait", "drain"}
                                 /\ meth[u] \in {"initialize", "notifications/initialized"}})

\* ------------------------------------------------------- connect()
\* if self._process is not None: return True
AlreadyConnected == process # NoProc

\* A variant of Connect that begins the ids of a new connection at 1.
ConnectResetsCounter(t) ==
    /\ pc[t] = "idle"
    /\ IF AlreadyConnected
       THEN /\ Return(t, Returned("connect", <<"True">>, 0))
            /\ UNCHANGED <<client, procs, readers, extra>>
       ELSE /\ Spawns < MaxSpawns
            /\ request_id + Reserved + 2 <= MaxRequests
            /\ status' = "connecting"
            /\ request_id' = 0
            /\ pc' = [pc EXCEPT ![t] = "spawn"]
            /\ meth' = [meth EXCEPT ![t] = "connect"]
            /\ ret' = NoRet
            /\ UNCHANGED <<last_error, process, reader_task, pending,
                           tools, procs, readers, extra, rid, fut, dp>>

\* connect() is called: up to the await of the spawn.
Connect(t) ==
    /\ pc[t] = "idle"
    /\ IF AlreadyConnected
       THEN /\ Return(t, Returned("connect", <<"True">>, 0))
            /\ UNCHANGED <<client, procs, readers, extra>>
       ELSE /\ Spawns < MaxSpawns
            /\ request_id + Reserved + 2 <= MaxRequests
            /\ status' = "connecting"
            /\ pc' = [pc EXCEPT ![t] = "spawn"]
            /\ meth' = [meth EXCEPT ![t] = "connect"]
            /\ ret' = NoRet
            /\ UNCHANGED <<last_error, process, reader_task, request_id, pending,
                           tools, procs, readers, extra, rid, fut, dp>>

\* create_subprocess_exec returns: the process and the reader task are stored
\* and _initialize sends the initialize request.
SpawnOk(t) ==
    /\ pc[t] = "spawn"
    /\ LET p == Len(procs) + 1 IN
        /\ process' = p
        /\ readers' = Append(readers, NewReader)
        /\ reader_task' = p
        /\ StartRequest(t, p, "initialize", "", Append(procs, NewProc), pending)
    /\ UNCHANGED <<tools, extra>>

\* create_subprocess_exec raises (the command does not exist).
SpawnFail(t) ==
    /\ pc[t] = "spawn"
    /\ ConnectExcept(t, "FileNotFoundError", SpawnMessage)
    /\ UNCHANGED <<process, reader_task, request_id, pending, tools, procs,
                   readers, extra>>

\* Task u is about to run: what it awaits is there or takes the event loop
\* milliseconds (a spawn, a cancelled reader task, the exit of a killed child).
Ready(u) ==
    \/ pc[u] \in {"spawn", "d_reader", "d_kill"}
    \/ pc[u] = "wait" /\ fut[u].st # "pending"
    \/ pc[u] = "d_wait" /\ procs[dp[u]].state = "exited"
    \/ pc[u] = "drain" /\ (procs[dp[u]].pipe # "full" \/ procs[dp[u]].state = "exited")

\* No calling task and no reader task is about to run.  The deadlines of the
\* client (30 s for a request, 5 s for a graceful exit) do not elapse before
\* a task that is about to run has run.
Quiet ==
    /\ \A u \in Tasks : ~Ready(u)
    /\ \A r \in DOMAIN readers :
          /\ readers[r].state # "new"
          /\ readers[r].state = "reading" => procs[readers[r].on].state = "running"

\* A variant of Timeout that sends the request of a tool call once more.
TimeoutRetries(t) ==
    /\ pc[t] = "wait"
    /\ fut[t].st = "pending"
    /\ Quiet
    /\ IF meth[t] = "tools/call" /\ process # NoProc /\ request_id + Reserved < MaxRequests
       THEN /\ StartRequest(t, process, "tools/call", Args[request_id'], procs,
                            Pop(pending, rid[t]))
            /\ UNCHANGED <<process, reader_task, tools, readers, extra>>
       ELSE /\ pending' = Pop(pending, rid[t])
            /\ Propagate(t, meth[t], "TimeoutError", TimeoutMessage, rid[t])
            /\ UNCHANGED <<process, reader_task, request_id, tools, procs, readers, extra>>

\* asyncio.wait_for(future, timeout=30.0) raises TimeoutError.
Timeout(t) ==
    /\ pc[t] = "wait"
    /\ fut[t].st = "pending"
    /\ Quiet
    /\ pending' = Pop(pending, rid[t])
    /\ Propagate(t, meth[t], "TimeoutError", TimeoutMessage, rid[t])
    /\ UNCHANGED <<process, reader_task, request_id, tools, procs, readers, extra>>

\* The future holds an exception: _request raises it.
ResponseError(t) ==
    /\ pc[t] = "wait"
    /\ fut[t].st = "exception"
    /\ pending' = Pop(pending, rid[t])
    /\ Propagate(t, meth[t], "RuntimeError", fut[t].val[1], rid[t])
    /\ UNCHANGED <<process, reader_task, request_id, tools, procs, readers, extra>>

\* call_tool: the result of tools/call is returned (response.get("content", [])).
CallToolReturns(t) ==
    /\ pc[t] = "wait"
    /\ fut[t].st = "result"
    /\ meth[t] = "tools/call"
    /\ pending' = Pop(pending, rid[t])
    /\ Return(t, Returned("call_tool", fut[t].val, rid[t]))
    /\ UNCHANGED <<status, last_error, process, reader_task, request_id, tools,
                   procs, readers, extra>>

\* A variant of Initialized that goes from the initialize response straight
\* to the tools/list request.
InitializedSkipsNotification(t) ==
    /\ pc[t] = "wait"
    /\ fut[t].st = "result"
    /\ meth[t] = "initialize"
    /\ IF process = NoProc
       THEN /\ pending' = Pop(pending, rid[t])
            /\ ConnectExcept(t, "RuntimeError", NotConnectedMessage)
            /\ UNCHANGED <<request_id, procs>>
       ELSE StartRequest(t, process, "tools/list", "", procs, Pop(pending, rid[t]))
    /\ UNCHANGED <<process, reader_task, tools, readers, extra>>

\* _initialize: the initialize response is there; the initialized
\* notification is written (_notify) and the tools/list request is sent.
\* _notify and _request raise RuntimeError when self._process is None;
\* _notify's drain suspends when the pipe is full and may raise on the pipe
\* of a child that has exited.
Initialized(t) ==
    /\ pc[t] = "wait"
    /\ fut[t].st = "result"
    /\ meth[t] = "initialize"
    /\ IF process = NoProc
       THEN /\ pending' = Pop(pending, rid[t])
            /\ ConnectExcept(t, "RuntimeError", NotConnectedMessage)
            /\ UNCHANGED <<request_id, procs>>
       ELSE IF Fills(procs, process, "notifications/initialized")
       THEN /\ pending' = Pop(pending, rid[t])
            /\ procs' = Write(procs, process, Notification("notifications/initialized"))
            /\ pc' = [pc EXCEPT ![t] = "drain"]
            /\ meth' = [meth EXCEPT ![t] = "notifications/initialized"]
            /\ rid' = [rid EXCEPT ![t] = 0]
            /\ fut' = [fut EXCEPT ![t] = FutNone]
            /\ dp' = [dp EXCEPT ![t] = process]
            /\ ret' = NoRet
            /\ UNCHANGED <<status, last_error, request_id>>
       ELSE \/ StartRequest(t, process, "tools/list", "",
                    Write(procs, process, Notification("notifications/initialized")),
                    Pop(pending, rid[t]))
            \/ /\ procs[process].state = "exited"
               /\ pending' = Pop(pending, rid[t])
               /\ ConnectExcept(t, "ConnectionResetError", ConnectionLostMessage)
               /\ UNCHANGED <<request_id, procs>>
    /\ UNCHANGED <<process, reader_task, tools, readers, extra>>

\* drain() returns: the child has read its stdin.  _request goes on to wait
\* for its future; _initialize goes on from the notification to the
\* tools/list request.
Drained(t) ==
    /\ pc[t] = "drain"
    /\ procs[dp[t]].pipe # "full"
    /\ IF meth[t] # "notifications/initialized"
       THEN /\ pc' = [pc EXCEPT ![t] = "wait"]
            /\ dp' = [dp EXCEPT ![t] = NoProc]
            /\ ret' = NoRet
            /\ UNCHANGED <<status, last_error, request_id, pending, procs,
                           meth, rid, fut>>
       ELSE IF process = NoProc
       THEN /\ ConnectExcept(t, "RuntimeError", NotConnectedMessage)
            /\ UNCHANGED <<request_id, pending, procs>>
       ELSE StartRequest(t, process, "tools/list", "", procs, pending)
    /\ UNCHANGED <<process, reader_task, tools, readers, extra>>

\* drain() raises: the child has exited with the pipe still full
\* (BrokenPipeError, whose str is empty).  No deadline covers the drain.
DrainFails(t) ==
    /\ pc[t] = "drain"
    /\ procs[dp[t]].pipe = "full"
    /\ procs[dp[t]].state = "exited"
    /\ IF meth[t] # "notifications/initialized"
       THEN /\ pending' = Pop(pending, rid[t])
            /\ Propagate(t, meth[t], "BrokenPipeError", "", rid[t])
       ELSE /\ ConnectExcept(t, "BrokenPipeError", "")
            /\ UNCHANGED pending
    /\ UNCHANGED <<process, reader_task, request_id, tools, procs, readers, extra>>

\* A variant of Connected that adds the tools of the response to the catalog
\* it finds.
ConnectedAddsTools(t) ==
    /\ pc[t] = "wait"
    /\ fut[t].st = "result"
    /\ meth[t] = "tools/list"
    /\ pending' = Pop(pending, rid[t])
    /\ tools' = tools \o fut[t].val
    /\ status' = "connected"
    /\ last_error' = NoError
    /\ Return(t, Returned("connect", <<"True">>, 0))
    /\ UNCHANGED <<process, reader_task, request_id, procs, readers, extra>>

\* _initialize: the tools/list response is there; the catalog is stored and
\* connect() sets the status and returns True.
Connected(t) ==
    /\ pc[t] = "wait"
    /\ fut[t].st = "result"
    /\ meth[t] = "tools/list"
    /\ pending' = Pop(pending, rid[t])
    /\ tools' = fut[t].val
    /\ status' = "connected"
    /\ last_error' = NoError
    /\ Return(t, Returned("connect", <<"True">>, 0))
    /\ UNCHANGED <<process, reader_task, request_id, procs, readers, extra>>

\* ------------------------------------------------------ call_tool()
\* A variant of CallTool that takes an id before it looks at self._process.
CallToolTakesId(t) ==
    /\ pc[t] = "idle"
    /\ request_id + Reserved < MaxRequests
    /\ IF process = NoProc
       THEN /\ request_id' = NextRequestId(request_id)
            /\ Return(t, Raised("call_tool", "RuntimeError", NotConnectedMessage, 0))
            /\ UNCHANGED <<status, last_error, process, reader_task, pending,
                           tools, procs, readers, extra>>
       ELSE /\ StartRequest(t, process, "tools/call", Args[request_id'], procs, pending)
            /\ UNCHANGED <<process, reader_task, tools, readers, extra>>

\* call_tool -> _request: RuntimeError at once when self._process is None,
\* else the tools/call request is sent.
CallTool(t) ==
    /\ pc[t] = "idle"
    /\ IF process = NoProc
       THEN /\ Return(t, Raised("call_tool", "RuntimeError", NotConnectedMessage, 0))
            /\ UNCHANGED <<client, procs, readers, extra>>
       ELSE /\ request_id + Reserved < MaxRequests
            /\ StartRequest(t, process, "tools/call", Args[request_id'], procs, pending)
            /\ UNCHANGED <<process, reader_task, tools, readers, extra>>

\* ----------------------------------------------------- disconnect()
\* A variant of DisconnectReturns that keeps the catalog.
DisconnectKeepsTools(t, p) ==
    /\ status' = "disconnected"
    /\ tools' = tools
    /\ Return(t, Returned("disconnect", <<"None">>, p))

\* The tail of disconnect(): the status and the catalog, and None returned;
\* p is the child whose exit the call has seen, or NoProc.
DisconnectReturns(t, p) ==
    /\ status' = "disconnected"
    /\ tools' = <<>>
    /\ Return(t, Returned("disconnect", <<"None">>, p))

\* disconnect() after the reader task was awaited: the field is cleared and
\* the child, when there is one, is asked to terminate.  terminate() on a
\* child that is gone raises ProcessLookupError, which is passed over.
AfterReader(t) ==
    /\ reader_task' = NoProc
    /\ IF process = NoProc
       THEN /\ DisconnectReturns(t, NoProc)
            /\ UNCHANGED <<process, procs>>
       ELSE \/ /\ procs[process].state = "exited"
               /\ process' = NoProc
               /\ procs' = Forget(procs, process)
               /\ DisconnectReturns(t, process)
            \/ /\ procs' = [procs EXCEPT ![process].termed =
                                (@ \/ procs[process].state = "running")]
               /\ dp' = [dp EXCEPT ![t] = process]
               /\ pc' = [pc EXCEPT ![t] = "d_wait"]
               /\ meth' = [meth EXCEPT ![t] = "disconnect"]
               /\ ret' = NoRet
               /\ UNCHANGED <<status, tools, process, rid, fut>>
    /\ UNCHANGED <<last_error, request_id, pending, extra>>

\* A variant of Cancel that leaves the reader task running.
CancelNothing(rs, r) == rs

\* task.cancel(): a reader task that has not ended reads nothing more (it
\* catches the CancelledError and returns).
Cancel(rs, r) ==
    IF rs[r].state \in {"new", "reading"} THEN Ended(rs, r, "done") ELSE rs

\* disconnect() is called.  Awaiting a reader task that has already ended
\* does not suspend.
Disconnect(t) ==
    /\ pc[t] = "idle"
    /\ IF reader_task # NoProc /\ readers[reader_task].state \in {"new", "reading"}
       THEN /\ readers' = Cancel(readers, reader_task)
            /\ pc' = [pc EXCEPT ![t] = "d_reader"]
            /\ meth' = [meth EXCEPT ![t] = "disconnect"]
            /\ ret' = NoRet
            /\ UNCHANGED <<client, procs, extra, rid, fut, dp>>
       ELSE /\ AfterReader(t)
            /\ UNCHANGED readers

\* await self._reader_task returns.
ReaderAwaited(t) ==
    /\ pc[t] = "d_reader"
    /\ AfterReader(t)
    /\ UNCHANGED readers

\* The child exited within the grace period; the finally clause clears the
\* process field.
ChildExited(t) ==
    /\ pc[t] = "d_wait"
    /\ procs[dp[t]].state = "exited"
    /\ process' = NoProc
    /\ procs' = Forget(procs, dp[t])
    /\ DisconnectReturns(t, dp[t])
    /\ UNCHANGED <<last_error, reader_task, request_id, pending, readers, extra>>

\* A variant of GraceTimeout without the kill: the call goes on waiting.
GraceTimeoutNoKill(t) ==
    /\ pc[t] = "d_wait"
    /\ procs[dp[t]].state = "running"
    /\ UNCHANGED vars

\* wait_for(self._process.wait(), timeout=5.0) raises TimeoutError:
\* self._process.kill() and a second wait.  The field is read again: cleared
\* meanwhile, the kill raises AttributeError out of disconnect(); holding a
\* child that is gone, the kill may raise ProcessLookupError.
GraceTimeout(t) ==
    /\ pc[t] = "d_wait"
    /\ procs[dp[t]].state = "running"
    /\ Quiet
    /\ IF process = NoProc
       THEN /\ Return(t, Raised("disconnect", "AttributeError", "kill", 0))
            /\ UNCHANGED <<process, procs>>
       ELSE \/ /\ procs' = [Exit(procs, process) EXCEPT ![process].killed = TRUE]
               /\ dp' = [dp EXCEPT ![t] = process]
               /\ pc' = [pc EXCEPT ![t] = "d_kill"]
               /\ ret' = NoRet
               /\ UNCHANGED <<process, meth, rid, fut>>
            \/ /\ procs[process].state = "exited"
               /\ process' = NoProc
               /\ Return(t, Raised("disconnect", "ProcessLookupError", "kill", 0))
               /\ UNCHANGED procs
    /\ UNCHANGED <<status, last_error, reader_task, request_id, pending, tools,
                   readers, extra>>

\* await self._process.wait() returns after the kill (the zombie is reaped).
Reaped(t) ==
    /\ pc[t] = "d_kill"
    /\ procs[dp[t]].state = "exited"
    /\ process' = NoProc
    /\ procs' = Forget(procs, dp[t])
    /\ DisconnectReturns(t, dp[t])
    /\ UNCHANGED <<last_error, reader_task, request_id, pending, readers, extra>>

\* -------------------------------------------------- _read_responses
\* A variant of Owner that matches in arrival order: a response goes to the
\* oldest pending request, whatever id it carries.
OwnerByArrival(line, pend) ==
    IF line.id # 0 /\ DOMAIN pend # {}
    THEN pend[CHOOSE k \in DOMAIN pend : \A j \in DOMAIN pend : k <= j]
    ELSE 0

\* A variant of Owner that gives a response whose id is not in the table to
\* the latest pending request.
OwnerOrLatest(line, pend) ==
    IF line.id # 0 /\ line.id \in DOMAIN pend THEN pend[line.id]
    ELSE IF line.id # 0 /\ DOMAIN pend # {}
    THEN pend[CHOOSE k \in DOMAIN pend : \A j \in DOMAIN pend : k >= j]
    ELSE 0

\* if "id" in message and message["id"] in self._pending_requests: the task
\* whose future is registered under the id of the line, or 0.
Owner(line, pend) ==
    IF line.id # 0 /\ line.id \in DOMAIN pend THEN pend[line.id] ELSE 0

\* The outcome a response line gives a future.
Outcome(line) ==
    IF line.kind = "error" THEN FutException(line.body[1])
    ELSE FutResult(line.body)

\* A variant of Handle that does not look whether the future is done.
HandleDoneFuture(f, line, pend) ==
    LET o == Owner(line, pend) IN
    IF line.kind \in {"result", "error"} /\ o # 0
    THEN [f EXCEPT ![o] = Outcome(line)]
    ELSE f

\* The body of the loop for a line that parses to a message object or does
\* not parse at all: the futures f after it.
Handle(f, line, pend) ==
    LET o == Owner(line, pend) IN
    IF line.kind \in {"result", "error"} /\ o # 0 /\ f[o].st = "pending"
    THEN [f EXCEPT ![o] = Outcome(line)]
    ELSE f

\* The loop of reader r from its top until it has to wait or ends.  Each turn
\* reads self._process again; readline returns a buffered line without
\* suspending; a line that is no message object ends the task (only
\* JSONDecodeError is caught); a second coroutine that has to wait on a stream
\* gets RuntimeError.  The result is the readers, the processes and the
\* futures afterwards.
RECURSIVE RunReader(_, _, _, _)
RunReader(r, rs, ps, f) ==
    IF process = NoProc
    THEN [rs |-> Ended(rs, r, "failed"), ps |-> ps, f |-> f]
    ELSE IF ps[process].out # <<>>
    THEN LET line == Head(ps[process].out)
             rest == [ps EXCEPT ![process].out = Tail(@)]
         IN IF line.kind = "badshape"
            THEN [rs |-> Ended(rs, r, "failed"), ps |-> rest, f |-> f]
            ELSE RunReader(r, rs, rest, Handle(f, line, pending))
    ELSE IF \E q \in DOMAIN rs : q # r /\ rs[q].state = "reading" /\ rs[q].on = process
    THEN [rs |-> Ended(rs, r, "failed"), ps |-> ps, f |-> f]
    ELSE [rs |-> [rs EXCEPT ![r] = [state |-> "reading", on |-> process]],
          ps |-> ps, f |-> f]

\* The reader task starts to run.
ReaderStart(r) ==
    /\ r \in DOMAIN readers
    /\ readers[r].state = "new"
    /\ IF process = NoProc
       THEN /\ readers' = Ended(readers, r, "done")
            /\ UNCHANGED <<procs, fut>>
       ELSE LET x == RunReader(r, readers, procs, fut) IN
            /\ readers' = x.rs
            /\ procs' = x.ps
            /\ fut' = x.f
    /\ ret' = NoRet
    /\ UNCHANGED <<client, extra, pc, meth, rid, dp>>

\* readline returns b"" at end of file: the loop ends.
ReaderEOF(r) ==
    /\ r \in DOMAIN readers
    /\ readers[r].state = "reading"
    /\ AtEOF(readers[r].on)
    /\ readers' = Ended(readers, r, "done")
    /\ ret' = NoRet
    /\ UNCHANGED <<client, procs, extra, locals>>

\* The readers that wait in readline on the stdout of process p.
Waiting(p) == {r \in DOMAIN readers : readers[r].state = "reading" /\ readers[r].on = p}

\* A reader task may still read the stdout of process p: one waits on it, or
\* p is the client's process and a reader task is alive.
Readable(p) ==
    \/ Waiting(p) # {}
    \/ /\ process = p
       /\ \E r \in DOMAIN readers : readers[r].state \in {"new", "reading"}

\* Process p, whose table entry becomes ps, writes a line to its stdout.  The
\* reader that waits on the stream takes the line and goes through its loop;
\* without one the line stays in the pipe, and a line that no reader can get
\* to is not kept.
Emit(p, line, ps) ==
    IF Waiting(p) = {}
    THEN /\ procs' = IF Readable(p) THEN [ps EXCEPT ![p].out = Append(@, line)] ELSE ps
         /\ UNCHANGED <<readers, fut>>
    ELSE LET r == CHOOSE q \in Waiting(p) : TRUE
             x == RunReader(r, readers, ps, Handle(fut, line, pending))
         IN IF line.kind = "badshape"
            THEN /\ readers' = Ended(readers, r, "failed")
                 /\ procs' = ps
                 /\ UNCHANGED fut
            ELSE /\ readers' = x.rs
                 /\ procs' = x.ps
                 /\ fut' = x.f

\* ------------------------------------------------- the child process
\* The child answers a request it has read, in any order, with a result or
\* with an error object.  What a child writes after SIGTERM with no reader
\* left reaches nobody and is left out.
ChildRespond(p, req, kind) ==
    /\ p \in DOMAIN procs
    /\ procs[p].state = "running"
    /\ Readable(p) \/ ~procs[p].termed
    /\ req \in procs[p].open
    /\ \A u \in Tasks : pc[u] = "drain" => rid[u] # req.id
    /\ Emit(p, Line(kind, req.id, IF kind = "result" THEN ResultFor(req) ELSE ErrorBody),
            [procs EXCEPT ![p].open = @ \ {req}])
    /\ ret' = NoRet
    /\ UNCHANGED <<client, extra, pc, meth, rid, dp>>

\* The child writes a line that answers no open request: a line that is not
\* JSON, a JSON value that is no message, a notification, a response with
\* the id of a request that was answered or given up before (a second
\* response), or a response with an id that no request has.
Stale(p, id) ==
    /\ id \in 1..request_id
    /\ \A q \in DOMAIN procs : \A req \in procs[q].open : req.id # id
    /\ id \in DOMAIN pending => fut[pending[id]].st # "pending"

\* Process p is not the client's any more, and both have a reader task
\* waiting on their stdout: a connect() has overlapped another.
Superseded(p) == process # NoProc /\ process # p /\ Waiting(p) # {} /\ Waiting(process) # {}

\* An id that no request of the run has.
UnknownId == MaxRequests + 1

\* What the reader task that waits on the stdout of process p has read in
\* this step.
ReadLine(p, line) ==
    [op |-> "readline", kind |-> line.kind, val |-> <<p>>, id |-> line.id, exc |-> <<>>]

ChildExtra(p, kind, id) ==
    /\ p \in DOMAIN procs
    /\ procs[p].state = "running"
    /\ extra < MaxExtra
    /\ Spawns < MaxSpawns \/ (kind = "garbage" /\ Superseded(p))
    /\ Readable(p)
    /\ IF kind = "result" THEN Stale(p, id) \/ id = UnknownId ELSE id = 0
    /\ Emit(p, Line(kind, id, <<"extra">>), procs)
    /\ extra' = extra + 1
    /\ ret' = IF Waiting(p) # {} THEN ReadLine(p, Line(kind, id, <<"extra">>)) ELSE NoRet
    /\ UNCHANGED <<client, pc, meth, rid, dp>>

\* The child reads what has piled up in its stdin.
ChildReads(p) ==
    /\ p \in DOMAIN procs
    /\ procs[p].state = "running"
    /\ procs[p].pipe = "full"
    /\ procs' = [procs EXCEPT ![p].pipe = "read"]
    /\ ret' = NoRet
    /\ UNCHANGED <<client, readers, extra, locals>>

\* The child exits, on its own or on SIGTERM.
ChildExit(p) ==
    /\ p \in DOMAIN procs
    /\ procs[p].state = "running"
    /\ procs' = Exit(procs, p)
    /\ ret' = NoRet
    /\ UNCHANGED <<client, readers, extra, locals>>

\* ------------------------------------------------------------ Next
\* Idle callers are interchangeable: a new call is made by the first of them.
FirstIdle(t) == \A u \in Tasks : u < t => pc[u] # "idle"

TaskStep(t) ==
    \/ FirstIdle(t) /\ Connect(t)
    \/ SpawnOk(t)
    \/ SpawnFail(t)
    \/ Timeout(t)
    \/ ResponseError(t)
    \/ CallToolReturns(t)
    \/ Initialized(t)
    \/ Drained(t)
    \/ DrainFails(t)
    \/ Connected(t)
    \/ FirstIdle(t) /\ CallTool(t)
    \/ FirstIdle(t) /\ Disconnect(t)
    \/ ReaderAwaited(t)
    \/ ChildExited(t)
    \/ GraceTimeout(t)
    \/ Reaped(t)

ReaderStep(r) ==
    \/ ReaderStart(r)
    \/ ReaderEOF(r)

ChildStep(p) ==
    \/ \E req \in Requests, kind \in {"result", "error"} : ChildRespond(p, req, kind)
    \/ \E kind \in ExtraKinds, id \in 0..UnknownId : ChildExtra(p, kind, id)
    \/ ChildReads(p)
    \/ ChildExit(p)

\* One client on its own: the registry stays as it is.
Next ==
    \/ \E t \in Tasks : TaskStep(t) /\ UNCHANGED outside
    \/ \E r \in 1..MaxSpawns : ReaderStep(r) /\ UNCHANGED outside
    \/ \E p \in 1..MaxSpawns : ChildStep(p) /\ UNCHANGED outside

Spec == Init /\ [][Next]_vars

\* ------------------------------------------- one lifecycle call at a time
\* The client used as scripts/hammer_mcp.py uses it: connect, tool calls that
\* overlap, disconnect.  Another task is inside connect() or disconnect().
Busy(t) ==
    \E u \in Tasks \ {t} :
        \/ pc[u] \in {"spawn", "d_reader", "d_wait", "d_kill"}
        \/ pc[u] \in {"wait", "drain"} /\ meth[u] # "tools/call"

\* A connect() or disconnect() is called only while no other one is under
\* way; call_tool() is called at any time.
Sequential(t) == pc[t] = "idle" /\ Busy(t) => CallTool(t)

\* The steps a call takes after its awaits.  The event loop runs a task whose
\* await has ended, the timers of wait_for fire, the spawn comes back one way
\* or the other and a killed child exits: these steps are taken when they
\* stay possible.  The 30 s of a request elapse however often other tasks
\* get to run in between.
Resume(t) ==
    \/ SpawnOk(t) \/ SpawnFail(t)
    \/ Timeout(t) \/ ResponseError(t) \/ CallToolReturns(t)
    \/ Initialized(t) \/ Drained(t) \/ DrainFails(t) \/ Connected(t)
    \/ ReaderAwaited(t) \/ ChildExited(t) \/ GraceTimeout(t) \/ Reaped(t)

SeqNext ==
    \/ \E t \in Tasks : TaskStep(t) /\ Sequential(t) /\ UNCHANGED outside
    \/ \E r \in 1..MaxSpawns : ReaderStep(r) /\ UNCHANGED outside
    \/ \E p \in 1..MaxSpawns : ChildStep(p) /\ UNCHANGED outside

SeqSpec ==
    /\ Init
    /\ [][SeqNext]_vars
    /\ \A t \in Tasks : WF_vars(Resume(t) /\ UNCHANGED outside)
    /\ \A t \in Tasks : SF_vars(Timeout(t) /\ UNCHANGED outside)
    /\ \A r \in 1..MaxSpawns : WF_vars(ReaderStep(r) /\ UNCHANGED outside)

\* ------------------------------------------------------- the registry
\* MCPRegistry with its clients.  A client is seen as the registry sees it:
\* its status, its catalog, whether it holds a process, and how many of the
\* children spawned for it are alive.  connect() suspends at the spawn and at
\* the handshake, disconnect() at the wait for the child's exit.
Servers == 1..NServers
Registered == {s \in DOMAIN srv : srv[s].reg}
Enabled == {s \in Registered : srv[s].enabled}

\* register(config) of a descriptor not registered before.  Descriptors are
\* registered in the order of their numbers, while no call runs.
Register(s, en, va) ==
    /\ bulk.op = "idle" /\ api = NoCall
    /\ s \notin DOMAIN srv
    /\ s = Len(order) + 1
    /\ ~va => Cardinality({x \in Registered : ~srv[x].valid}) < MaxInvalid
    /\ ~en => Cardinality({x \in Registered : ~srv[x].enabled}) < MaxDisabled
    /\ order' = Append(order, s)
    /\ srv' = Put(srv, s, NewServer(en, va))
    /\ UNCHANGED <<bulk, api>>

\* What a call on a client has done when it suspends or returns: the
\* servers, the await it is suspended at ("none": it has returned) and its
\* return value.
Step(sv, phase, val) == [sv |-> sv, phase |-> phase, val |-> val]

\* client.connect() up to its first await.
ConnectCall(sv, s) ==
    IF sv[s].held THEN Step(sv, "none", TRUE)
    ELSE Step([sv EXCEPT ![s].status = "connecting"], "spawn", FALSE)
\* create_subprocess_exec has come back: with an exception for a command
\* that cannot be run, with a process otherwise.
SpawnDone(sv, s) ==
    IF ~sv[s].valid THEN Step([sv EXCEPT ![s].status = "error"], "none", FALSE)
    ELSE Step([sv EXCEPT ![s].held = TRUE, ![s].live = @ + 1], "handshake", FALSE)
\* The handshake has ended: with the catalog, or with an exception.
HandshakeDone(sv, s, ok) ==
    IF ok THEN Step([sv EXCEPT ![s].status = "connected", ![s].tools = CatalogOf(s)],
                    "none", TRUE)
    ELSE Step([sv EXCEPT ![s].status = "error"], "none", FALSE)
\* client.disconnect() up to its first await.
DisconnectCall(sv, s) ==
    IF sv[s].held THEN Step(sv, "exit", FALSE)
    ELSE Step([sv EXCEPT ![s].status = "disconnected", ![s].tools = <<>>],
              "none", FALSE)
\* The child has exited.
ExitDone(sv, s) ==
    Step([sv EXCEPT ![s].held = FALSE, ![s].live = @ - 1,
                    ![s].status = "disconnected", ![s].tools = <<>>],
         "none", FALSE)

\* The iterator of a dict (for ... in self._configs.items(), in
\* self._clients.values()).  The entries of the dict are the places of
\* order, a place whose server has been unregistered is an entry that was
\* deleted; the two dicts of the registry have the same keys at the same
\* places.  The iterator keeps the place it looks at next, the size of the
\* dict when the loop began and the number of items it has yet to give.
DictSize(sv) == Cardinality({s \in DOMAIN sv : sv[s].reg})
NewIter(sv) == [pos |-> 1, used |-> DictSize(sv), left |-> DictSize(sv)]
SizeChangedMessage == "dictionary changed size during iteration"
KeysChangedMessage == "dictionary keys changed during iteration"
\* next() of the iterator: it raises when the size of the dict is not the
\* size at the beginning, stops after the last entry, raises at an entry it
\* did not expect, and gives the next entry that is not deleted otherwise.
DictNext(sv, it) ==
    LET rest == {j \in it.pos..Len(order) : sv[order[j]].reg} IN
    IF it.used # DictSize(sv) THEN [kind |-> "raise", msg |-> SizeChangedMessage]
    ELSE IF rest = {} THEN [kind |-> "stop"]
    ELSE IF it.left = 0 THEN [kind |-> "raise", msg |-> KeysChangedMessage]
    ELSE LET j == CHOOSE k \in rest : \A l \in rest : k <= l IN
         [kind |-> "item", at |-> j,
          it |-> [pos |-> j + 1, used |-> it.used, left |-> it.left - 1]]

\* What a bulk call has done when it suspends (at an await of the call on
\* the client that its iterator gave last) or returns (its map, or None).
Loop(op, sv, it, phase, results) ==
    IF phase = "none"
    THEN [sv |-> sv, bulk |-> Idle, ret |-> Returned(op, results, 0)]
    ELSE [sv |-> sv, ret |-> NoRet,
          bulk |-> [op |-> op, at |-> it.pos - 1, phase |-> phase,
                    results |-> results, used |-> it.used, left |-> it.left]]
\* The bulk call ends with the exception of its iterator.
LoopRaises(op, sv, m) ==
    [sv |-> sv, bulk |-> Idle, ret |-> Raised(op, "RuntimeError", m, 0)]
\* The iterator of the suspended bulk call.
Iter == [pos |-> bulk.at + 1, used |-> bulk.used, left |-> bulk.left]

\* A variant of ConnectAllFrom that leaves the loop at the first False.
RECURSIVE ConnectAllStopsAtFailure(_, _, _)
ConnectAllStopsAtFailure(sv, it, results) ==
    LET n == DictNext(sv, it) IN
    IF n.kind = "raise" THEN LoopRaises("connect_all", sv, n.msg)
    ELSE IF n.kind = "stop" THEN Loop("connect_all", sv, it, "none", results)
    ELSE IF \E k \in DOMAIN results : ~results[k]
    THEN Loop("connect_all", sv, it, "none", results)
    ELSE IF ~sv[order[n.at]].enabled THEN ConnectAllStopsAtFailure(sv, n.it, results)
    ELSE LET c == ConnectCall(sv, order[n.at]) IN
         IF c.phase = "none"
         THEN ConnectAllStopsAtFailure(c.sv, n.it, Put(results, order[n.at], c.val))
         ELSE Loop("connect_all", c.sv, n.it, c.phase, results)
\* The loop of connect_all() from the next item of its iterator on, up to
\* its next await: a connect() that returns without suspending does not
\* suspend the loop either.
RECURSIVE ConnectAllFrom(_, _, _)
ConnectAllFrom(sv, it, results) ==
    LET n == DictNext(sv, it) IN
    IF n.kind = "raise" THEN LoopRaises("connect_all", sv, n.msg)
    ELSE IF n.kind = "stop" THEN Loop("connect_all", sv, it, "none", results)
    ELSE IF ~sv[order[n.at]].enabled THEN ConnectAllFrom(sv, n.it, results)
    ELSE LET c == ConnectCall(sv, order[n.at]) IN
         IF c.phase = "none"
         THEN ConnectAllFrom(c.sv, n.it, Put(results, order[n.at], c.val))
         ELSE Loop("connect_all", c.sv, n.it, c.phase, results)

\* The loop of disconnect_all() from the next item of its iterator on, up to
\* its next await.
RECURSIVE DisconnectAllFrom(_, _)
DisconnectAllFrom(sv, it) ==
    LET n == DictNext(sv, it) IN
    IF n.kind = "raise" THEN LoopRaises("disconnect_all", sv, n.msg)
    ELSE IF n.kind = "stop" THEN Loop("disconnect_all", sv, it, "none", <<>>)
    ELSE LET d == DisconnectCall(sv, order[n.at]) IN
         IF d.phase = "none" THEN DisconnectAllFrom(d.sv, n.it)
         ELSE Loop("disconnect_all", d.sv, n.it, d.phase, <<>>)

\* The bulk call goes on to x.
Goes(x) == srv' = x.sv /\ bulk' = x.bulk /\ ret' = x.ret /\ UNCHANGED <<order, api>>

\* connect_all() is called.
ConnectAll ==
    /\ bulk.op = "idle"
    /\ order # <<>>
    /\ Goes(ConnectAllFrom(srv, NewIter(srv), <<>>))

\* The spawn of the connect() that connect_all() awaits has come back.
BulkSpawned ==
    /\ bulk.op = "connect_all" /\ bulk.phase = "spawn"
    /\ LET s == order[bulk.at]
           c == SpawnDone(srv, s) IN
       IF c.phase = "none"
       THEN Goes(ConnectAllFrom(c.sv, Iter, Put(bulk.results, s, c.val)))
       ELSE Goes(Loop("connect_all", c.sv, Iter, c.phase, bulk.results))

\* The child that the client holds has answered the last request of the
\* handshake: the future of the request is done, the connect() that waits
\* for it has not run yet.
Answers(s) == srv[s].held /\ srv[s].live > 0
BulkAnswered ==
    /\ bulk.op = "connect_all" /\ bulk.phase = "handshake"
    /\ Answers(order[bulk.at])
    /\ bulk' = [bulk EXCEPT !.phase = "answered"]
    /\ ret' = NoRet
    /\ UNCHANGED <<order, srv, api>>

\* The handshake of the connect() that connect_all() awaits has ended: with
\* the catalog that has arrived, or with a failure before it arrives.
BulkHandshaken(ok) ==
    /\ bulk.op = "connect_all"
    /\ bulk.phase = IF ok THEN "answered" ELSE "handshake"
    /\ LET s == order[bulk.at]
           c == HandshakeDone(srv, s, ok) IN
       Goes(ConnectAllFrom(c.sv, Iter, Put(bulk.results, s, c.val)))

\* disconnect_all() is called.
DisconnectAll ==
    /\ bulk.op = "idle"
    /\ order # <<>>
    /\ Goes(DisconnectAllFrom(srv, NewIter(srv)))

\* The child of the disconnect() that disconnect_all() awaits has exited.
BulkExited ==
    /\ bulk.op = "disconnect_all" /\ bulk.phase = "exit"
    /\ Goes(DisconnectAllFrom(ExitDone(srv, order[bulk.at]).sv, Iter))

\* An API request connects one server: registry.connect(server_id).  No new
\* request comes in while disconnect_all() runs (the shutdown of main.py);
\* one that came in before goes on.
ApiConnect(i) ==
    /\ api = NoCall
    /\ bulk.op # "disconnect_all"
    /\ i \in DOMAIN order
    /\ srv[order[i]].live < MaxLive
    /\ LET c == ConnectCall(srv, order[i]) IN
       /\ srv' = c.sv
       /\ api' = IF c.phase = "none" THEN NoCall ELSE [at |-> i, phase |-> c.phase]
       /\ UNCHANGED <<order, bulk>>
ApiSpawned ==
    /\ api.phase = "spawn"
    /\ LET c == SpawnDone(srv, order[api.at]) IN
       /\ srv' = c.sv
       /\ api' = IF c.phase = "none" THEN NoCall ELSE [api EXCEPT !.phase = c.phase]
       /\ UNCHANGED <<order, bulk>>
ApiAnswered ==
    /\ api.phase = "handshake"
    /\ Answers(order[api.at])
    /\ api' = [api EXCEPT !.phase = "answered"]
    /\ UNCHANGED <<order, srv, bulk>>
ApiHandshaken(ok) ==
    /\ api.phase = IF ok THEN "answered" ELSE "handshake"
    /\ srv' = HandshakeDone(srv, order[api.at], ok).sv
    /\ api' = NoCall
    /\ UNCHANGED <<order, bulk>>

\* A variant of ListToolsFrom that leaves out the test of the status.
RECURSIVE ListToolsOfAll(_, _)
ListToolsOfAll(sv, i) ==
    IF i > Len(order) THEN <<>>
    ELSE IF ~sv[order[i]].reg THEN ListToolsOfAll(sv, i + 1)
    ELSE sv[order[i]].tools \o ListToolsOfAll(sv, i + 1)
\* The loop of list_tools() from the i-th client on.
RECURSIVE ListToolsFrom(_, _)
ListToolsFrom(sv, i) ==
    IF i > Len(order) THEN <<>>
    ELSE IF ~sv[order[i]].reg THEN ListToolsFrom(sv, i + 1)
    ELSE IF sv[order[i]].status = "connected"
    THEN sv[order[i]].tools \o ListToolsFrom(sv, i + 1)
    ELSE ListToolsFrom(sv, i + 1)

\* list_tools() is called: it does not suspend.
ListTools ==
    /\ order # <<>>
    /\ ret' = Returned("list_tools", ListToolsFrom(srv, 1), 0)
    /\ UNCHANGED registry

\* The tools of a catalog that have name n, in the order of the catalog.
Named(catalog, n) == SelectSeq(catalog, LAMBDA t : t.name = n)

\* A variant of FindToolFrom that goes on after a match and returns the last.
RECURSIVE FindToolLast(_, _, _)
FindToolLast(sv, i, n) ==
    IF i > Len(order) THEN <<>>
    ELSE LET later == FindToolLast(sv, i + 1, n) IN
         IF later # <<>> THEN later
         ELSE IF /\ sv[order[i]].reg /\ sv[order[i]].status = "connected"
                 /\ Named(sv[order[i]].tools, n) # <<>>
         THEN <<Head(Named(sv[order[i]].tools, n))>>
         ELSE <<>>
\* The loops of find_tool(n) from the i-th client on: the tool found, or
\* nothing (None).
RECURSIVE FindToolFrom(_, _, _)
FindToolFrom(sv, i, n) ==
    IF i > Len(order) THEN <<>>
    ELSE IF /\ sv[order[i]].reg /\ sv[order[i]].status = "connected"
            /\ Named(sv[order[i]].tools, n) # <<>>
    THEN <<Head(Named(sv[order[i]].tools, n))>>
    ELSE FindToolFrom(sv, i + 1, n)

\* find_tool(n) is called: it does not suspend.
FindTool(n) ==
    /\ order # <<>>
    /\ ret' = Returned("find_tool", FindToolFrom(srv, 1, n), n)
    /\ UNCHANGED registry

\* f"Tool not found: {tool_name}".
ToolNotFound(n) == <<"Tool not found", n>>
\* What a call that suspends after it has written its request to the child
\* of server s leaves behind.
Sent(op, s, n) == [op |-> op, kind |-> "sent", val |-> <<s>>, id |-> n, exc |-> <<>>]

\* registry.call_tool(n, arguments), called by an API request, up to its
\* first await: find_tool, then client.call_tool on the client found, which
\* raises when the client holds no process and writes its request otherwise.
ApiCallTool(n) ==
    /\ api = NoCall
    /\ order # <<>>
    /\ LET result == FindToolFrom(srv, 1, n) IN
       IF result = <<>>
       THEN /\ ret' = Raised("registry.call_tool", "ValueError", ToolNotFound(n), n)
            /\ UNCHANGED registry
       ELSE IF ~srv[result[1].server_id].held
       THEN /\ ret' = Raised("registry.call_tool", "RuntimeError", NotConnectedMessage, n)
            /\ UNCHANGED registry
       ELSE /\ ret' = Sent("registry.call_tool", result[1].server_id, n)
            /\ api' = [at |-> CHOOSE i \in DOMAIN order : order[i] = result[1].server_id,
                       phase |-> "call"]
            /\ UNCHANGED <<order, srv, bulk>>

\* The call that waits for its response ends: with the result or the error
\* that the live child has written, or with the timeout of the request.
CallOutcomes == {"result", "error", "timeout"}
ApiCallEnds(outcome) ==
    /\ api.phase = "call"
    /\ outcome # "timeout" => Answers(order[api.at])
    /\ ret' = CASE outcome = "result" ->
                     Returned("registry.call_tool", Echo(order[api.at]), 0)
               [] outcome = "error" ->
                     Raised("registry.call_tool", "RuntimeError", ErrorBody[1], 0)
               [] OTHER ->
                     Raised("registry.call_tool", "TimeoutError", TimeoutMessage, 0)
    /\ api' = NoCall
    /\ UNCHANGED <<order, srv, bulk>>

\* The client of the module's first part is not in the registry: a step of
\* the registry leaves it alone.
Apart == UNCHANGED <<client, procs, readers, extra, locals, clients, chunks, calls, sec>>
Aside == ret' = NoRet /\ Apart

RegNext ==
    \/ \E s \in Servers, en \in BOOLEAN, va \in BOOLEAN :
           Register(s, en, va) /\ Aside
    \/ ConnectAll /\ Apart
    \/ BulkSpawned /\ Apart
    \/ BulkAnswered /\ Apart
    \/ \E ok \in BOOLEAN :
           BulkHandshaken(ok) /\ Apart
    \/ DisconnectAll /\ Apart
    \/ BulkExited /\ Apart
    \/ \E i \in 1..NServers :
           ApiConnect(i) /\ Aside
    \/ ApiSpawned /\ Aside
    \/ ApiAnswered /\ Aside
    \/ \E ok \in BOOLEAN :
           ApiHandshaken(ok) /\ Aside
    \/ \E n \in ToolNames :
           ApiCallTool(n) /\ Apart
    \/ \E outcome \in CallOutcomes :
           ApiCallEnds(outcome) /\ Apart
    \/ ListTools /\ Apart
    \/ \E n \in ToolNames :
           FindTool(n) /\ Apart

RegSpec == Init /\ [][RegNext]_vars

\* ------------------------------------- the registry changed under a loop
\* register(config) of a new descriptor by a request that runs while a bulk
\* call is suspended.
RegisterSuspended(s, en, va) ==
    /\ bulk.op # "idle"
    /\ s \notin DOMAIN srv
    /\ s = Len(order) + 1
    /\ ~va => Cardinality({x \in Registered : ~srv[x].valid}) < MaxInvalid
    /\ ~en => Cardinality({x \in Registered : ~srv[x].enabled}) < MaxDisabled
    /\ order' = Append(order, s)
    /\ srv' = Put(srv, s, NewServer(en, va))
    /\ UNCHANGED <<bulk, api>>

\* unregister(server_id): the client and the descriptor leave the dicts; a
\* call that is suspended on the client keeps the client.
Unregister(s) ==
    /\ s \in Registered
    /\ srv' = [srv EXCEPT ![s].reg = FALSE]
    /\ UNCHANGED <<order, bulk, api>>

\* register(config) of a descriptor whose id is registered (a POST of
\* /servers that carries the id of a server): the descriptor and a new
\* MCPClient take the places of the old ones in the dicts, which keep their
\* sizes and their order; the old client is in no dict any more, the
\* children it has spawned stay as they are.  Here while no bulk call is
\* suspended in a call on the old client.
Reregister(s, en, va) ==
    /\ s \in Registered
    /\ bulk.op # "idle" => order[bulk.at] # s
    /\ srv[s].live <= MaxLive
    /\ ~va => Cardinality({x \in Registered \ {s} : ~srv[x].valid}) < MaxInvalid
    /\ ~en => Cardinality({x \in Registered \ {s} : ~srv[x].enabled}) < MaxDisabled
    /\ srv' = [srv EXCEPT ![s] = [NewServer(en, va) EXCEPT !.live = srv[s].live]]
    /\ ret' = Returned("register", <<>>, s)
    /\ UNCHANGED <<order, bulk, api>>

\* The bulk calls of the registry with requests that register and
\* unregister servers at any time.
MutNext ==
    \/ \E s \in Servers, en \in BOOLEAN, va \in BOOLEAN :
           Register(s, en, va) /\ Aside
    \/ \E s \in Servers, en \in BOOLEAN, va \in BOOLEAN :
           Reregister(s, en, va) /\ Apart
    \/ \E s \in Servers, en \in BOOLEAN, va \in BOOLEAN :
           RegisterSuspended(s, en, va) /\ Aside
    \/ \E s \in Servers :
           Unregister(s) /\ Aside
    \/ ConnectAll /\ Apart
    \/ BulkSpawned /\ Apart
    \/ BulkAnswered /\ Apart
    \/ \E ok \in BOOLEAN :
           BulkHandshaken(ok) /\ Apart
    \/ DisconnectAll /\ Apart
    \/ BulkExited /\ Apart

MutSpec == Init /\ [][MutNext]_vars

\* ------------------------------------------- the clients side by side
\* The clients of the registry with all their fields, each operation of a
\* client taken as one step.  cs is registry._clients, k the key of the
\* client the operation is called on.
\* connect(): nothing when the client holds a process; else the spawn, the
\* handshake (two requests, each entered in the pending table and taken out
\* again) and the catalog, or the failure of the spawn, or the failure of
\* the first request of the handshake, which leaves the process in place.
ConnectHows == {"ok", "spawn fails", "handshake fails"}
ClientConnect(cs, k, how) ==
    IF cs[k].process THEN cs
    ELSE IF how = "spawn fails" THEN [cs EXCEPT ![k].status = "error"]
    ELSE IF how = "handshake fails"
    THEN [cs EXCEPT ![k].status = "error", ![k].process = TRUE,
                    ![k].request_id = @ + 1]
    ELSE [cs EXCEPT ![k].status = "connected", ![k].process = TRUE,
                    ![k].request_id = @ + 2, ![k].tools = Catalog]
\* disconnect(): the process, the catalog and the status; the pending table
\* and the counter stay.
ClientDisconnect(cs, k) ==
    [cs EXCEPT ![k].status = "disconnected", ![k].process = FALSE,
               ![k].tools = <<>>]
\* A variant of ClientRequest with one pending table for all clients.
ClientRequestSharedTable(cs, k) ==
    IF ~cs[k].process THEN cs
    ELSE [j \in DOMAIN cs |->
            IF j = k
            THEN [cs[j] EXCEPT !.request_id = @ + 1,
                               !.pending = @ \cup {cs[k].request_id + 1}]
            ELSE [cs[j] EXCEPT !.pending = @ \cup {cs[k].request_id + 1}]]
\* _request() up to its await: it raises when the client holds no process,
\* else it takes the next id and enters its future in the pending table.
ClientRequest(cs, k) ==
    IF ~cs[k].process THEN cs
    ELSE [cs EXCEPT ![k].request_id = @ + 1,
                    ![k].pending = @ \cup {cs[k].request_id + 1}]
\* The request with this id ends, with the response (a result or an error)
\* or with the timeout: its entry leaves the pending table.
ClientRequestEnds(cs, k, id) == [cs EXCEPT ![k].pending = @ \ {id}]

\* The operations as steps; ret tells the operation and its client.
Operates(op, k, cs) ==
    /\ clients' = cs
    /\ ret' = Returned(op, <<>>, k)
    /\ UNCHANGED <<client, procs, readers, extra, locals, registry, service, sec>>
ClientConnects(k, how) ==
    /\ clients[k].request_id + 2 <= MaxIds
    /\ Operates("connect", k, ClientConnect(clients, k, how))
ClientDisconnects(k) ==
    Operates("disconnect", k, ClientDisconnect(clients, k))
ClientRequests(k) ==
    /\ clients[k].request_id + 1 <= MaxIds
    /\ Operates("request", k, ClientRequest(clients, k))
ClientGetsResponse(k, id) ==
    /\ id \in clients[k].pending
    /\ clients[k].process
    /\ Operates("response", k, ClientRequestEnds(clients, k, id))
ClientTimesOut(k, id) ==
    /\ id \in clients[k].pending
    /\ Operates("timeout", k, ClientRequestEnds(clients, k, id))

SideNext ==
    \/ \E k \in Clients, how \in ConnectHows : ClientConnects(k, how)
    \/ \E k \in Clients : ClientDisconnects(k)
    \/ \E k \in Clients : ClientRequests(k)
    \/ \E k \in Clients, id \in 1..MaxIds : ClientGetsResponse(k, id)
    \/ \E k \in Clients, id \in 1..MaxIds : ClientTimesOut(k, id)

SideSpec == Init /\ [][SideNext]_vars

\* ------------------------------------------------- the capture pipeline
\* How an awaited call or a provider ends: it returns a value or raises.
Gives(v) == [kind |-> "return", val |-> v]
Throws(e) == [kind |-> "raise", val |-> e]

\* MCPService.call_tool as the API calls it: the service of a request has
\* the registry and a ChunkRepository on the session of this request.
ChunkRepo == TRUE
\* The arguments of caller k (the message hammer-k) and the tool's name.
ArgsOf(k) == <<"hammer", k>>
ToolName == "echo"
\* What the registry's call_tool may return to caller k: a list of content
\* blocks (the echo of the arguments in one text block, no block, a block
\* that is no text, one empty text, two empty texts), a dict, or None.
Block(type, text) == [type |-> type, text |-> text]
ListResult(items) == [kind |-> "list", items |-> items]
ResultsFor(k) ==
    {ListResult(<<Block("text", <<"Echo", ArgsOf(k)>>)>>),
     ListResult(<<>>),
     ListResult(<<Block("image", <<>>)>>),
     ListResult(<<Block("text", <<>>)>>),
     ListResult(<<Block("text", <<>>), Block("text", <<>>)>>),
     [kind |-> "dict", items |-> <<>>],
     [kind |-> "none", items |-> <<>>]}
\* The exceptions of registry.call_tool: tool not found, an error response
\* or no connection, a timeout.
ToolFailures == {"ValueError", "RuntimeError", "TimeoutError"}
OutcomesFor(k) ==
    {Gives(r) : r \in ResultsFor(k)} \cup {Throws(e) : e \in ToolFailures}

\* "\n".join(parts).
RECURSIVE JoinLines(_)
JoinLines(parts) ==
    IF parts = <<>> THEN <<>>
    ELSE IF Len(parts) = 1 THEN parts[1]
    ELSE parts[1] \o <<"\n">> \o JoinLines(Tail(parts))
\* The texts of the blocks of type text, in order.
RECURSIVE TextParts(_)
TextParts(items) ==
    IF items = <<>> THEN <<>>
    ELSE IF Head(items).type = "text"
    THEN <<Head(items).text>> \o TextParts(Tail(items))
    ELSE TextParts(Tail(items))
\* _extract_text(result).
ExtractText(result) ==
    IF result.kind = "list" THEN JoinLines(TextParts(result.items))
    ELSE IF result.kind = "dict" THEN <<"json", result.items>>
    ELSE <<>>

\* A variant of Captures that does not look at the capture flag.
CapturesAlways(capture, text) == text # <<>> /\ ChunkRepo
\* The test in front of the capture.
Captures(capture, text) == capture /\ text # <<>> /\ ChunkRepo

\* The value call_tool returns: the tool, the result and, after a capture,
\* the id of the chunk.
Response(result, chunk_id) ==
    [tool |-> ToolName, result |-> result, chunk_id |-> chunk_id]
\* The row that _capture_as_chunk and ChunkRepository.create make of a
\* result: a new id, the log entry with the arguments and the text.
SameChunkId(rows) == 1
NewChunkId(rows) == Len(rows) + 1
NewChunk(rows, arguments, text) ==
    [id |-> NewChunkId(rows), status |-> "inbox",
     content |-> <<"Tool Execution", "unknown", ToolName, arguments, text>>]

\* A variant of AfterTool that captures the failure of the tool call.
AfterToolCapturesFailure(call, outcome) ==
    IF outcome.kind = "raise" /\ call.capture
    THEN ServiceCall("capture", call.capture, outcome)
    ELSE IF outcome.kind = "raise" THEN ServiceCall("raise", call.capture, outcome)
    ELSE IF Captures(call.capture, ExtractText(outcome.val))
    THEN ServiceCall("capture", call.capture, outcome)
    ELSE ServiceCall("return", call.capture, outcome)
\* call_tool from the end of registry.call_tool to its next await or its
\* end: the exception goes on to the caller; else the text is taken from
\* the result and the capture begins, or the call returns without one.
AfterTool(call, outcome) ==
    IF outcome.kind = "raise" THEN ServiceCall("raise", call.capture, outcome)
    ELSE IF Captures(call.capture, ExtractText(outcome.val))
    THEN ServiceCall("capture", call.capture, outcome)
    ELSE ServiceCall("return", call.capture, outcome)

\* Caller k calls call_tool: it awaits registry.call_tool.
ServiceCallTool(k, capture) ==
    /\ calls[k].at = "idle"
    /\ calls' = [calls EXCEPT ![k] = ServiceCall("tool", capture, <<>>)]
    /\ ret' = NoRet
    /\ UNCHANGED chunks
\* registry.call_tool ends for caller k.
ToolEnds(k, outcome) ==
    /\ calls[k].at = "tool"
    /\ LET next == AfterTool(calls[k], outcome) IN
       /\ calls' = [calls EXCEPT ![k] = IF next.at = "capture" THEN next
                                        ELSE NoServiceCall]
       /\ ret' = CASE next.at = "raise" ->
                        Raised("service.call_tool", outcome.val, "", k)
                  [] next.at = "return" ->
                        Returned("service.call_tool", Response(outcome.val, <<>>), k)
                  [] OTHER -> NoRet
    /\ UNCHANGED chunks
\* The commit of ChunkRepository.create succeeds: the row is in the store
\* and call_tool returns with its id.
Captured(k) ==
    /\ calls[k].at = "capture"
    /\ Len(chunks) < MaxChunks
    /\ LET result == calls[k].outcome.val
           text == IF calls[k].outcome.kind = "return" THEN ExtractText(result)
                   ELSE <<result>>
           chunk == NewChunk(chunks, ArgsOf(k), text) IN
       /\ chunks' = Append(chunks, chunk)
       /\ ret' = Returned("service.call_tool", Response(result, <<chunk.id>>), k)
    /\ calls' = [calls EXCEPT ![k] = NoServiceCall]
\* A variant of CaptureFails that keeps the failure of the capture from the
\* caller: the tool result is returned without a chunk id.
CaptureFailsIsolated(k) ==
    /\ calls[k].at = "capture"
    /\ ret' = Returned("service.call_tool", Response(calls[k].outcome.val, <<>>), k)
    /\ calls' = [calls EXCEPT ![k] = NoServiceCall]
    /\ UNCHANGED chunks
\* The commit fails: no row, and the exception goes on to the caller.
CaptureFails(k) ==
    /\ calls[k].at = "capture"
    /\ ret' = Raised("service.call_tool", "SQLAlchemyError", "", k)
    /\ calls' = [calls EXCEPT ![k] = NoServiceCall]
    /\ UNCHANGED chunks

\* What a step of the service leaves alone.
Beside == UNCHANGED <<client, procs, readers, extra, locals, registry, clients, sec>>
CapNext ==
    \/ \E k \in Callers, capture \in BOOLEAN :
           ServiceCallTool(k, capture) /\ Beside
    \/ \E k \in Callers :
           \E outcome \in OutcomesFor(k) : ToolEnds(k, outcome) /\ Beside
    \/ \E k \in Callers :
           Captured(k) /\ Beside
    \/ \E k \in Callers :
           CaptureFails(k) /\ Beside

CapSpec == Init /\ [][CapNext]_vars

\* ------------------------------------------------------- the secrets
\* A string is the sequence of its pieces; "://" and "/" are pieces of their
\* own, so that splitting a string is done on the string and not given.
Sep == "://"
Slash == "/"
\* The values a descriptor's env map may hold: plain values, references to
\* a variable that is set, not set, set to the empty string or has no name,
\* references to a keyring entry that exists, is missing or has no user
\* part, and values with "://" behind another scheme, behind other text or
\* behind nothing.
Values ==
    {<<>>, <<"x">>, <<"env", "x">>,
     <<"env", Sep, "x">>, <<"env", Sep, "y">>, <<"env", Sep, "e">>, <<"env", Sep>>,
     <<"env", Sep, "x", Sep, "x">>,
     <<"keyring", Sep, "x", Slash, "x">>, <<"keyring", Sep, "x", Slash, "y">>,
     <<"keyring", Sep, "x">>,
     <<"x", Sep, "x">>, <<"x", "env", Sep, "x">>, <<Sep, "x">>}
\* os.environ and the entries of the keyring.
Environ == (<<"x">> :> <<"value of x">>) @@ (<<"e">> :> <<>>)
Keyring == (<<<<"x">>, <<"x">>>> :> <<"secret of x">>)

\* The place of the first piece c in string v; 0 when there is none.
Find(v, c) ==
    IF \E i \in DOMAIN v : v[i] = c
    THEN CHOOSE i \in DOMAIN v : v[i] = c /\ \A j \in 1..(i - 1) : v[j] # c
    ELSE 0
Before(v, i) == SubSeq(v, 1, i - 1)
After(v, i) == SubSeq(v, i + 1, Len(v))
StartsWith(v, scheme) ==
    Len(v) >= 2 /\ v[1] = scheme /\ v[2] = Sep

\* EnvProvider.get_secret.
EnvGetSecret(v) ==
    IF ~StartsWith(v, "env") THEN Gives(<<>>)
    ELSE LET var_name == After(v, 2) IN
         IF var_name \in DOMAIN Environ THEN Gives(Environ[var_name])
         ELSE Gives(<<>>)

\* SystemKeyringProvider.get_secret.
KeyringGetSecret(v, has, works) ==
    IF ~has THEN Throws("RuntimeError")
    ELSE IF ~StartsWith(v, "keyring") THEN Gives(<<>>)
    ELSE LET path == After(v, 2)
             cut == Find(path, Slash) IN
         IF cut = 0 THEN Throws("ValueError")
         ELSE IF ~works THEN Throws("KeyringError")
         ELSE LET entry == <<Before(path, cut), After(path, cut)>> IN
              IF entry \in DOMAIN Keyring /\ Keyring[entry] # <<>>
              THEN Gives(Keyring[entry])
              ELSE Throws("ValueError")

\* A variant of ResolveValue without the except clause.
ResolveValueUncaught(v, has, works) ==
    IF Find(v, Sep) = 0 THEN Gives(v)
    ELSE LET scheme == Before(v, Find(v, Sep)) IN
         IF scheme = <<"env">> THEN EnvGetSecret(v)
         ELSE IF scheme = <<"keyring">> THEN KeyringGetSecret(v, has, works)
         ELSE Gives(v)
\* The body of the loop of resolve_env_vars for one value: the provider of
\* the scheme before the first "://", its exception caught, or the value as
\* it is.
ResolveValue(v, has, works) ==
    IF Find(v, Sep) = 0 THEN Gives(v)
    ELSE LET scheme == Before(v, Find(v, Sep)) IN
         IF scheme = <<"env">> THEN EnvGetSecret(v)
         ELSE IF scheme = <<"keyring">>
         THEN LET got == KeyringGetSecret(v, has, works) IN
              IF got.kind = "raise" THEN Gives(<<>>) ELSE got
         ELSE Gives(v)

\* resolve_env_vars: the loop over the keys that are left, in the order of
\* the map; an exception that the body lets through ends the call.
RECURSIVE ResolveFrom(_, _, _, _, _)
ResolveFrom(cfg, left, resolved, has, works) ==
    IF left = {} THEN Gives(resolved)
    ELSE LET key == CHOOSE k \in left : \A l \in left : k <= l
             got == ResolveValue(cfg[key], has, works) IN
         IF got.kind = "raise" THEN got
         ELSE ResolveFrom(cfg, left \ {key}, Put(resolved, key, got.val), has, works)

\* resolve_env_vars(env_config) is called.
ResolveEnvVars ==
    /\ ~sec.done
    /\ sec' = [sec EXCEPT !.done = TRUE,
                          !.result = ResolveFrom(sec.asked, DOMAIN sec.asked, <<>>,
                                                 sec.has_keyring, sec.backend)]
    /\ ret' = NoRet
    /\ UNCHANGED <<client, procs, readers, extra, locals, registry, clients, service>>

\* The maps from some of the keys to the values, with and without the
\* keyring package, with a keyring backend that works or fails.
Keys == 1..NKeys
SecInit ==
    /\ Base
    /\ \E ks \in SUBSET Keys :
          sec \in {SecretsCall(cfg, has, works) :
                      cfg \in [ks -> Values], has \in BOOLEAN, works \in BOOLEAN}
SecNext == ResolveEnvVars
SecSpec == SecInit /\ [][SecNext]_vars

\* ---------------------------------------------------------- claims
\* Task t is inside disconnect(); the children that are alive.
InDisconnect(t) == pc[t] \in {"d_reader", "d_wait", "d_kill"}
Running == {p \in DOMAIN procs : procs[p].state = "running"}

\* C1: a call_tool that returns, returns the result of the response line that
\* carries its own request id, that is the echo of its own arguments, in
\* whatever order the child writes its responses; no call gets the result of
\* another call.
ThmC1 ==
    ret.op = "call_tool" /\ ret.kind = "return" => ret.val = Echo(Args[ret.id])

\* On a connected client a call_tool has returned its own result while a
\* call_tool with a smaller request id is still waiting: the responses came
\* in reverse order.
WitC1 ==
    /\ status = "connected"
    /\ ret.op = "call_tool" /\ ret.kind = "return"
    /\ \E t \in Tasks : pc[t] = "wait" /\ meth[t] = "tools/call" /\ rid[t] < ret.id

\* C2: when the child of a connected client, with no disconnect under way,
\* writes a well-formed response to a request that is still pending (its
\* deadline has not passed), the future of the request is completed by it,
\* whatever the child wrote before.
CexC2 ==
    [][\A p \in 1..MaxSpawns, req \in Requests, kind \in {"result", "error"} :
          (/\ ChildRespond(p, req, kind)
           /\ status = "connected"
           /\ process = p
           /\ req.id \in DOMAIN pending
           /\ \A u \in Tasks : ~InDisconnect(u))
          => fut'[pending[req.id]].st # "pending"]_vars

\* C3: at most one child process spawned for the descriptor is alive.
CexC3 == Cardinality(Running) <= 1

\* C4: every change of the status is one of Disconnected to Connecting,
\* Connecting to Connected, Connecting to Error, Connected to Disconnected and
\* Error to Connecting.
CexC4 ==
    [][status' # status =>
          <<status, status'>> \in
              {<<"disconnected", "connecting">>, <<"connecting", "connected">>,
               <<"connecting", "error">>, <<"connected", "disconnected">>,
               <<"error", "connecting">>}]_vars

\* C5: connect() never raises, and when it returns False after an exception
\* (from the spawn, from a handshake response that is an error, from a
\* handshake timeout, from a write) the status is Error and last_error is the
\* message of that exception.
ThmC5 ==
    /\ ret.op = "connect" => ret.kind = "return"
    /\ ret.op = "connect" /\ ret.val = <<"False">> =>
          /\ status = "error"
          /\ ret.exc # <<>>
          /\ last_error = ret.exc[2]

\* connect() has returned False for a handshake answered with an error
\* object, the child it spawned still held.
WitC5 ==
    /\ ret.op = "connect" /\ ret.val = <<"False">>
    /\ ret.exc = <<"RuntimeError", ErrorBody[1]>>
    /\ process # NoProc

\* C6: when connect() returns True the status is Connected.
CexC6 == ret.op = "connect" /\ ret.val = <<"True">> => status = "connected"

\* C7: a connect() called in status Error makes a fresh attempt: it sets the
\* status to Connecting and goes on to spawn a child.
CexC7 ==
    [][\A t \in Tasks :
          Connect(t) /\ status = "error" => status' = "connecting" /\ pc'[t] = "spawn"]_vars

\* The client after a disconnect().
Clean ==
    /\ status = "disconnected"
    /\ tools = <<>>
    /\ process = NoProc
    /\ reader_task = NoProc

NewRequest(t) == rid'[t] # 0 /\ rid'[t] # rid[t]

\* C10: a request gets an id greater than every id given out before and not
\* in the pending table, also while other requests are pending; no pending id
\* is beyond the counter and no two waiting requests share an id.
ThmC10 ==
    /\ [][\A t \in Tasks :
             NewRequest(t) =>
                 /\ rid'[t] > request_id
                 /\ rid'[t] = request_id'
                 /\ rid'[t] \notin DOMAIN pending]_vars
    /\ [](\A k \in DOMAIN pending : k <= request_id)
    /\ [](\A t, u \in Tasks :
             t # u /\ pc[t] = "wait" /\ pc[u] = "wait" => rid[t] # rid[u])

\* Two requests are pending at the same time, the later one with the
\* greater id.
WitC10 ==
    \E t, u \in Tasks :
        /\ pc[t] = "wait" /\ pc[u] = "wait"
        /\ rid[t] < rid[u]
        /\ {rid[t], rid[u]} \subseteq DOMAIN pending

\* The ids of the requests in flight: sent by a _request that has not ended.
InFlight == {rid[t] : t \in {u \in Tasks : pc[u] \in {"wait", "drain"} /\ rid[u] # 0}}

\* C11: at every moment the pending table holds exactly the ids of the
\* requests in flight, each under the task that sent it; the id of a request
\* that has ended (result, error, write failure, timeout) is not in it.
ThmC11 ==
    /\ DOMAIN pending = InFlight
    /\ \A k \in DOMAIN pending : rid[pending[k]] = k
    /\ ret.op = "call_tool" /\ ret.id # 0 => ret.id \notin DOMAIN pending

\* A call_tool has ended by timeout and its id is gone from the table while
\* another request is still pending.
WitC11 ==
    /\ ret.op = "call_tool" /\ ret.kind = "raise" /\ ret.val[1] = "TimeoutError"
    /\ ret.id # 0 /\ ret.id \notin DOMAIN pending
    /\ pending # <<>>

\* C12: a call_tool on a client that holds no process raises the
\* not-connected error in the step of the call: the caller is not suspended,
\* no id is taken, the pending table is unchanged and nothing is written to
\* any child.
ThmC12 ==
    [][\A t \in Tasks :
          CallTool(t) /\ process = NoProc =>
              /\ ret' = Raised("call_tool", "RuntimeError", NotConnectedMessage, 0)
              /\ pc'[t] = "idle"
              /\ UNCHANGED <<request_id, pending, procs>>]_vars

\* A call_tool on a client that was connected and then disconnected has
\* raised the not-connected error.
WitC12 ==
    /\ ret = Raised("call_tool", "RuntimeError", NotConnectedMessage, 0)
    /\ process = NoProc
    /\ status = "disconnected"
    /\ request_id > 0

\* C13 (connect() and disconnect() called one at a time; a task whose await
\* has ended runs and the timers fire): every request in flight ends, whatever
\* the child does, a child that never reads its stdin included.
CexC13 == \A k \in 1..MaxRequests : (k \in InFlight) ~> (k \notin InFlight)

\* A response with id k can still reach the client: a child whose stdout a
\* reader task may read holds the request or has written the response.
Answerable(k) ==
    \E p \in DOMAIN procs :
        /\ Readable(p)
        /\ \/ \E req \in procs[p].open : req.id = k
           \/ \E i \in DOMAIN procs[p].out : procs[p].out[i].id = k

\* The tools/call request of task u is in the pending table, its future is
\* not completed and no response can reach it any more; the same for a
\* request whose line is written and drained.
Cut(u) ==
    /\ pc[u] \in {"wait", "drain"}
    /\ meth[u] = "tools/call"
    /\ fut[u].st = "pending"
    /\ rid[u] \in DOMAIN pending
    /\ ~Answerable(rid[u])

CutWaiting(u) == Cut(u) /\ pc[u] = "wait"

\* Task t takes a step of disconnect().
DisconnectStep(t) ==
    Disconnect(t) \/ ReaderAwaited(t) \/ ChildExited(t) \/ GraceTimeout(t) \/ Reaped(t)

Awaited(i) ==
    LET line == procs[process].out[i] IN
    /\ line.kind \in {"result", "error"}
    /\ line.id \in DOMAIN pending
    /\ fut[pending[line.id]].st = "pending"

\* C15: a line that does not parse as JSON is dropped silently.  Read by the
\* waiting reader task, it changes no future, the pending table and the
\* status, and it ends no reader task: the one that read it goes on waiting
\* for the next line; when a child on whose stdout a reader task waits
\* answers a pending request, the future of the request is completed with
\* the result or the error of the response; and a reader task that starts on
\* buffered lines, none of them a JSON value of unexpected shape, goes past
\* the lines that do not parse, completes the future of every response among
\* them and waits for the next line.
CexC15 ==
    /\ [][\A p \in 1..MaxSpawns :
             ChildExtra(p, "garbage", 0) =>
                 /\ UNCHANGED <<fut, pending, status, last_error, tools>>
                 /\ DOMAIN readers' = DOMAIN readers
                 /\ \A r \in DOMAIN readers :
                       readers'[r].state = readers[r].state]_vars
    /\ [][\A p \in DOMAIN procs : \A req \in procs[p].open :
             /\ Waiting(p) # {}
             /\ req.id \in DOMAIN pending
             /\ fut[pending[req.id]].st = "pending"
             /\ procs'[p].state = "running"
             /\ req \notin procs'[p].open
             => fut'[pending[req.id]] \in
                    {Outcome(Line("result", req.id, ResultFor(req))),
                     Outcome(Line("error", req.id, ErrorBody))}]_vars
    /\ [][\A r \in 1..MaxSpawns :
             /\ ReaderStart(r)
             /\ process # NoProc
             /\ Waiting(process) = {}
             /\ \A i \in DOMAIN procs[process].out : procs[process].out[i].kind # "badshape"
             => /\ readers'[r] = [state |-> "reading", on |-> process]
                /\ procs'[process].out = <<>>
                /\ \A i \in DOMAIN procs[process].out :
                      Awaited(i) =>
                          fut'[pending[procs[process].out[i].id]] =
                              Outcome(procs[process].out[i])]_vars

\* The order in which a connect() goes through its handshake: the method it
\* is at, from the spawn to the end of the call.
HandshakeOrder ==
    {<<"none", "connect">>, <<"connect", "initialize">>, <<"connect", "none">>,
     <<"initialize", "notifications/initialized">>, <<"initialize", "tools/list">>,
     <<"initialize", "none">>, <<"notifications/initialized", "tools/list">>,
     <<"notifications/initialized", "none">>, <<"tools/list", "none">>}

\* C16: a connect() writes initialize first, to the child it has spawned; it
\* writes the initialized notification only with the initialize response in
\* hand, and the tools/list request only after the notification; the status
\* becomes Connected only in the step in which a connect() has the tools/list
\* response in hand and stores the catalog from it.
ThmC16 ==
    /\ [][\A t \in Tasks :
             meth'[t] # meth[t] /\ "tools/call" \notin {meth[t], meth'[t]}
             /\ "disconnect" \notin {meth[t], meth'[t]}
             => <<meth[t], meth'[t]>> \in HandshakeOrder]_vars
    /\ [][\A t \in Tasks :
             meth[t] = "connect" /\ meth'[t] = "initialize" =>
                 /\ process' = Len(procs')
                 /\ procs'[process'].open = {Request(rid'[t], "initialize", "")}
                 /\ ~procs'[process'].notified]_vars
    /\ [][\A t \in Tasks :
             /\ meth[t] = "initialize"
             /\ meth'[t] \in {"notifications/initialized", "tools/list"}
             => /\ fut[t].st = "result"
                /\ process # NoProc
                /\ procs[process].state = "running" => procs'[process].notified]_vars
    /\ [][\A t \in Tasks :
             meth[t] # "tools/list" /\ meth'[t] = "tools/list" =>
                 /\ process # NoProc
                 /\ procs[process].state = "running" =>
                        Request(rid'[t], "tools/list", "") \in procs'[process].open]_vars
    /\ [][status' = "connected" /\ status # "connected" =>
             \E t \in Tasks :
                 /\ meth[t] = "tools/list"
                 /\ fut[t].st = "result"
                 /\ pc'[t] = "idle"
                 /\ tools' = fut[t].val]_vars

\* A connect() has gone through the whole handshake: it has returned True,
\* the client is Connected with the catalog of the child, which has got the
\* notification and has no request left to answer.
WitC16 ==
    /\ ret = Returned("connect", <<"True">>, 0)
    /\ status = "connected"
    /\ tools = Catalog
    /\ process # NoProc
    /\ procs[process].notified
    /\ procs[process].open = {}

\* Task t has the tools/list response in hand.
HasCatalog(t) == pc[t] = "wait" /\ meth[t] = "tools/list" /\ fut[t].st = "result"

\* C17: between suspension points a Disconnected client has an empty
\* catalog; the catalog changes only in a step that makes the client
\* Connected and replaces it with the tools of the tools/list response the
\* connect() has in hand, or in a step that makes the client Disconnected and
\* empties it; so a Connected client has exactly the tools of the latest
\* tools/list response.
ThmC17 ==
    /\ [](status = "disconnected" => tools = <<>>)
    /\ [][tools' # tools =>
             \/ status' = "disconnected" /\ tools' = <<>>
             \/ /\ status' = "connected"
                /\ \E t \in Tasks : HasCatalog(t) /\ pc'[t] = "idle" /\ tools' = fut[t].val]_vars
    /\ [][status' = "connected" =>
             \/ status = "connected" /\ tools' = tools
             \/ \E t \in Tasks : HasCatalog(t) /\ pc'[t] = "idle" /\ tools' = fut[t].val]_vars

\* The client is Connected again after a disconnect(): its catalog is the one
\* of the second child, the first child has been terminated.
WitC17 ==
    /\ status = "connected"
    /\ ret = Returned("connect", <<"True">>, 0)
    /\ Len(procs) = 2
    /\ process = 2
    /\ procs[1].termed /\ procs[1].state = "exited"
    /\ tools = Catalog

\* ------------------------------------------------- claims on the registry
\* The servers whose connect attempt the running connect_all() has started:
\* those with an entry in its results and the one it awaits.
Started ==
    DOMAIN bulk.results
    \cup {order[i] : i \in {j \in DOMAIN order : j = bulk.at /\ bulk.op = "connect_all"}}

\* C18: connect_all() starts the connect attempts of the enabled descriptors
\* concurrently: while the attempt for one server waits for its handshake,
\* the attempt of every other enabled server has been started.
CexC18 ==
    bulk.op = "connect_all" /\ bulk.phase = "handshake" => Enabled \subseteq Started

\* The entry of server s in the map that connect_all() has returned.
Entry(s) == ret.val[s]

\* C19: connect_all() does not raise when a server fails to connect; the map
\* it returns has one entry for every enabled registered descriptor and none
\* for a disabled one, the entry of a server whose command cannot be run is
\* False and an entry is True only for a server that got connected, and the
\* loop goes on to the next descriptor after a False.
ThmC19 ==
    /\ [](ret.op = "connect_all" =>
             /\ ret.kind = "return"
             /\ DOMAIN ret.val = Enabled
             /\ \A s \in Enabled :
                  /\ ~srv[s].valid => ~Entry(s)
                  /\ Entry(s) => srv[s].held)
    /\ [][bulk.op = "connect_all" /\ bulk'.op = "idle" => ret'.op = "connect_all"]_vars
    /\ [][bulk.op = "idle" /\ ConnectAll /\ bulk'.op = "idle"
             => ret'.op = "connect_all"]_vars
    /\ [][bulk.op = "connect_all" /\ bulk'.op = "connect_all"
             => /\ DOMAIN bulk.results \subseteq DOMAIN bulk'.results
                /\ \A s \in DOMAIN bulk.results : bulk'.results[s] = bulk.results[s]
                /\ bulk'.at >= bulk.at]_vars

\* connect_all() over three enabled servers of which exactly one has a command
\* that cannot be run has returned three entries with exactly one False.
WitC19 ==
    /\ ret.op = "connect_all"
    /\ Enabled = Servers
    /\ Cardinality({s \in Servers : ~srv[s].valid}) = 1
    /\ DOMAIN ret.val = Servers
    /\ Cardinality({s \in Servers : ~Entry(s)}) = 1
    /\ \A s \in Servers : Entry(s) <=> srv[s].valid

\* The client of server s is torn down.
TornDown(sv, s) ==
    sv[s].status = "disconnected" /\ sv[s].tools = <<>> /\ sv[s].live = 0

\* C20: when disconnect_all() returns, every registered client has status
\* Disconnected, an empty catalog and no live child, whatever its enabled
\* flag and its status before the call.
CexC20 ==
    [][/\ bulk.op = "disconnect_all" \/ (bulk.op = "idle" /\ DisconnectAll)
       /\ bulk'.op = "idle"
       => \A s \in Registered : TornDown(srv', s)]_vars

\* The registered servers whose client has status Connected.
ConnectedServers == {s \in Registered : srv[s].status = "connected"}
\* The elements of a list.
Elements(list) == {list[i] : i \in DOMAIN list}

\* C21: list_tools() returns the union of the catalogs of the clients whose
\* status is Connected when it is called: every tool of every Connected
\* client is in the list, once, and no tool of a client in another status.
ThmC21 ==
    ret.op = "list_tools" =>
        /\ ret.kind = "return"
        /\ Elements(ret.val) = UNION {Elements(srv[s].tools) : s \in ConnectedServers}
        /\ \A i, j \in DOMAIN ret.val : i # j => ret.val[i] # ret.val[j]
        /\ \A i \in DOMAIN ret.val : srv[ret.val[i].server_id].status = "connected"

\* list_tools() has listed the tools of two Connected clients and has left
\* out the catalog that a client in status Error still holds.
WitC21 ==
    /\ ret.op = "list_tools"
    /\ Cardinality(ConnectedServers) = 2
    /\ Len(ret.val) >= 3
    /\ \E s \in Registered : srv[s].status = "error" /\ srv[s].tools # <<>>

\* The place of server s in the registration order.
Place(s) == CHOOSE i \in DOMAIN order : order[i] = s
\* The registered servers that are Connected and have a tool named n.
Offering(n) ==
    {s \in ConnectedServers : \E t \in Elements(srv[s].tools) : t.name = n}

\* C22: when several Connected servers have a tool of the name asked for,
\* find_tool returns the tool of the one that was registered first; what it
\* returns is fixed by the registered servers, their order, their statuses
\* and their catalogs, so a repeated call returns the same while these stay.
ThmC22 ==
    ret.op = "find_tool" =>
        /\ ret.val = <<>> <=> Offering(ret.id) = {}
        /\ ret.val # <<>> =>
              /\ ret.val[1].name = ret.id
              /\ ret.val[1].server_id \in Offering(ret.id)
              /\ \A s \in Offering(ret.id) : Place(ret.val[1].server_id) <= Place(s)

\* find_tool has chosen between two Connected servers that have a tool of
\* the name, with a server registered before them that is not Connected.
WitC22 ==
    /\ ret.op = "find_tool"
    /\ Cardinality(Offering(ret.id)) = 2
    /\ ret.val # <<>>
    /\ \E s \in Registered \ ConnectedServers : Place(s) < Place(ret.val[1].server_id)

\* C23: registry.call_tool(n, arguments) raises the tool-not-found error
\* exactly when no Connected client has a tool named n, and then writes no
\* request; otherwise it writes one tools/call request, to the client that
\* find_tool selects, and waits for the response.
CexC23 ==
    [][api = NoCall /\ ret'.op = "registry.call_tool"
          => IF Offering(ret'.id) = {}
             THEN ret' = Raised("registry.call_tool", "ValueError",
                                ToolNotFound(ret'.id), ret'.id)
                  /\ api' = NoCall
             ELSE /\ ret'.kind = "sent"
                  /\ ret'.val = <<FindToolFrom(srv, 1, ret'.id)[1].server_id>>
                  /\ api'.phase = "call"
                  /\ order[api'.at] = ret'.val[1]]_vars

\* C28: a register() or an unregister() that runs while connect_all() or
\* disconnect_all() is suspended does not make the bulk call raise: the call
\* returns.
CexC28 ==
    ret.op \in {"connect_all", "disconnect_all"} => ret.kind = "return"

\* C29: a connect, disconnect, request, response, failure or timeout on one
\* client leaves the status, the catalog, the pending table, the id counter
\* and the process of every other client as they were.
ThmC29 ==
    [][\A j \in Clients : j # ret'.id => clients'[j] = clients[j]]_vars

\* A response has ended the request with id 3 of client 1 while client 2,
\* Connected too, still has its own request with id 3 in its pending table.
WitC29 ==
    /\ ret.op = "response" /\ ret.id = 1
    /\ clients[1].request_id = 3 /\ clients[1].pending = {}
    /\ clients[2].status = "connected" /\ clients[2].pending = {3}

\* A value has a recognized scheme when it begins with env:// or keyring://.
Recognized(v) == StartsWith(v, "env") \/ StartsWith(v, "keyring")
\* What a reference stands for: the variable's value, the keyring entry's
\* secret when the keyring can be asked, or nothing.
Meant(v, has, works) ==
    IF StartsWith(v, "env")
    THEN {Environ[n] : n \in {After(v, 2)} \cap DOMAIN Environ}
    ELSE IF has /\ works /\ Len(v) >= 5 /\ v[4] = Slash /\ v[3] # Slash
    THEN {Keyring[e] : e \in {<<<<v[3]>>, After(v, 4)>>} \cap DOMAIN Keyring}
    ELSE {}

\* C27: resolve_env_vars does not raise; its result has the keys of the map
\* it was given; a value without a recognized scheme comes back as it is; a
\* reference that cannot be resolved gives the empty string, a reference
\* that can gives what it stands for; so the result of a key depends on the
\* value of this key alone.
ThmC27 ==
    sec.done =>
        /\ sec.result.kind = "return"
        /\ DOMAIN sec.result.val = DOMAIN sec.asked
        /\ \A k \in DOMAIN sec.asked :
             LET v == sec.asked[k]
                 meant == Meant(v, sec.has_keyring, sec.backend) IN
             /\ ~Recognized(v) => sec.result.val[k] = v
             /\ Recognized(v) /\ meant = {} => sec.result.val[k] = <<>>
             /\ Recognized(v) /\ meant # {} => sec.result.val[k] \in meant

\* resolve_env_vars has been given a keyring reference without the keyring
\* package next to a reference to a variable that is set: the first key has
\* the empty string, the second the variable's value.
WitC27 ==
    /\ sec.done
    /\ ~sec.has_keyring
    /\ DOMAIN sec.asked = {1, 2}
    /\ sec.asked[1] = <<"keyring", Sep, "x", Slash, "x">>
    /\ sec.asked[2] = <<"env", Sep, "x">>
    /\ sec.result.val = (1 :> <<>>) @@ (2 :> <<"value of x">>)

\* Caller k's call_tool returns in this step.
ServiceReturns(k) ==
    /\ calls[k].at # "idle"
    /\ ret'.op = "service.call_tool" /\ ret'.kind = "return" /\ ret'.id = k

\* C24: a call_tool that returns has added one row to the chunk store when
\* capture is true and the text taken from the result is not empty, and no
\* row otherwise; what it returns has a chunk id exactly when a row was
\* added, the id of this row; no row is added by a step in which no
\* call_tool returns.
ThmC24 ==
    /\ [][\A k \in Callers : ServiceReturns(k) =>
             LET wanted == calls[k].capture /\ ExtractText(ret'.val.result) # <<>> IN
             /\ wanted => /\ chunks' = Append(chunks, chunks'[Len(chunks')])
                          /\ ret'.val.chunk_id = <<chunks'[Len(chunks')].id>>
             /\ ~wanted => /\ chunks' = chunks
                           /\ ret'.val.chunk_id = <<>>]_vars
    /\ [][chunks' # chunks => \E k \in Callers : ServiceReturns(k)]_vars

\* call_tool has returned with the id of a new row for a result whose text
\* is one line break (two empty text blocks), and the store also has a row
\* of an echo.
WitC24 ==
    /\ ret.op = "service.call_tool" /\ ret.kind = "return"
    /\ ret.val.result = ListResult(<<Block("text", <<>>), Block("text", <<>>)>>)
    /\ ret.val.chunk_id = <<Len(chunks)>>
    /\ Len(chunks) = 2
    /\ chunks[1].content[5] = <<"Echo", ArgsOf(1)>>

\* The rows that hold arguments a.
RowsOf(a) == {i \in DOMAIN chunks : chunks[i].content[4] = a}

\* C25: calls with capture that run at the same time each return the echo
\* of their own arguments and each leave one row of their own: the row a
\* call returns the id of holds the arguments and the text of this call, no
\* two rows have the same id, and no row is lost or changed afterwards.
ThmC25 ==
    /\ [](\A i, j \in DOMAIN chunks : chunks[i].id = chunks[j].id => i = j)
    /\ [][SubSeq(chunks', 1, Len(chunks)) = chunks]_vars
    /\ [][\A k \in Callers :
             ServiceReturns(k) /\ ret'.val.chunk_id # <<>> =>
                 \E i \in DOMAIN chunks' :
                    /\ i \notin DOMAIN chunks
                    /\ chunks'[i].id = ret'.val.chunk_id[1]
                    /\ chunks'[i].content[4] = ArgsOf(k)
                    /\ chunks'[i].content[5] = ExtractText(ret'.val.result)]_vars

\* Caller 1 has returned with the echo of its own arguments and the id of
\* the second row, which holds them, while caller 2, whose row was written
\* first, waits for the commit of a further capture.
WitC25 ==
    /\ ret = Returned("service.call_tool",
                      Response(ListResult(<<Block("text", <<"Echo", ArgsOf(1)>>)>>), <<2>>), 1)
    /\ calls[2].at = "capture" /\ calls[2].capture
    /\ Len(chunks) = 2
    /\ RowsOf(ArgsOf(2)) = {1} /\ RowsOf(ArgsOf(1)) = {2}
    /\ chunks[1].content[5] = <<"Echo", ArgsOf(2)>>
    /\ chunks[1].id # chunks[2].id

\* C26: when registry.call_tool raises, call_tool ends with this exception
\* and adds no row, also with capture true; a capture begins only with the
\* result of a tool call that has returned.
ThmC26 ==
    /\ [](\A k \in Callers :
             calls[k].at = "capture" => calls[k].outcome.kind = "return")
    /\ [][\A k \in Callers :
             calls[k].at = "tool" /\ calls'[k].at = "idle"
                 => \/ /\ ret' \in {Raised("service.call_tool", e, "", k) : e \in ToolFailures}
                       /\ chunks' = chunks
                    \/ /\ ServiceReturns(k)
                       /\ ret'.val.result \in ResultsFor(k)]_vars
    /\ [][\A k \in Callers :
             calls[k].at = "tool" /\ calls'[k].at = "capture"
                 => ret' = NoRet /\ chunks' = chunks]_vars

\* A call_tool with capture true has ended with the timeout of the tool
\* call while the store has the row of an earlier call and nothing more.
WitC26 ==
    /\ ret = Raised("service.call_tool", "TimeoutError", "", 1)
    /\ Len(chunks) = 1
    /\ \A k \in Callers : calls[k].at = "idle"

\* A call_tool() is made in this step: it suspends with its request
\* written, or it ends in the step of the call.
CallToolMade ==
    \E t \in Tasks :
        /\ pc[t] = "idle"
        /\ \/ pc'[t] # "idle" /\ meth'[t] = "tools/call"
           \/ pc' = pc /\ ret'.op = "call_tool" /\ ret'.kind = "raise"
\* A call ends in this step with a failure: an exception raised, or the
\* exception that connect() has caught.
FailsNow(t) ==
    /\ pc[t] # "idle" /\ pc'[t] = "idle"
    /\ ret'.kind = "raise" \/ ret'.exc # <<>>
\* The failure of this step is the failure of the write of this step.
WriteFailed ==
    \/ ret'.kind = "raise" /\ ret'.val[1] = "ConnectionResetError"
    \/ ret'.exc = <<"ConnectionResetError", ConnectionLostMessage>>

\* C30 as stated, for call_tool: every call_tool() writes one tools/call
\* request, that is, takes one request id.
CexC30 ==
    [][CallToolMade => request_id' = request_id + 1]_vars

\* C30: nothing is retried.  A child is spawned only in the step in which a
\* connect() leaves its spawn, which it entered when it was called; a
\* request id is taken only in a step in which a task goes on to the next
\* message of its call or in which the write fails at once, and a task that
\* stays at a message keeps its id, so that every message of a handshake is
\* written at most once; a call_tool() takes one id when the client holds a
\* process and none when it holds none, and stays at its one request until
\* it ends; the step in which a call fails spawns nothing, writes nothing
\* but the request whose write has failed, and starts no other call.
ThmC30 ==
    /\ [][Len(procs') # Len(procs) =>
             /\ Len(procs') = Len(procs) + 1
             /\ \E t \in Tasks : meth[t] = "connect" /\ meth'[t] # "connect"]_vars
    /\ [][\A t \in Tasks :
             meth'[t] = "connect" /\ meth[t] # "connect" => pc[t] = "idle"]_vars
    /\ [][request_id' # request_id =>
             /\ request_id' = request_id + 1
             /\ \/ \E t \in Tasks :
                      /\ meth'[t] # meth[t]
                      /\ meth'[t] \in {"initialize", "tools/list", "tools/call"}
                      /\ rid'[t] = request_id'
                \/ WriteFailed]_vars
    /\ [][\A t \in Tasks :
             pc[t] # "idle" /\ pc'[t] # "idle" /\ meth'[t] = meth[t]
                 => rid'[t] = rid[t]]_vars
    /\ [][\A t \in Tasks :
             meth[t] = "tools/call" => meth'[t] \in {"tools/call", "none"}]_vars
    /\ [][CallToolMade =>
             IF process = NoProc
             THEN request_id' = request_id /\ procs' = procs
             ELSE request_id' = request_id + 1]_vars
    /\ [][\A t \in Tasks :
             FailsNow(t) =>
                 /\ Len(procs') = Len(procs)
                 /\ request_id' # request_id => WriteFailed
                 /\ meth'[t] = "none" /\ rid'[t] = 0
                 /\ \A u \in Tasks \ {t} : pc'[u] = pc[u] /\ meth'[u] = meth[u]]_vars

\* A call_tool() on a connected client has ended with the timeout of its
\* request, the third of the client after the two of the handshake: no
\* further id has been taken and no second child spawned.
WitC30 ==
    /\ ret = Raised("call_tool", "TimeoutError", TimeoutMessage, 3)
    /\ request_id = 3
    /\ Len(procs) = 1
    /\ status = "connected"
\* C31: a request is resolved at most once.  For a second response with the
\* id of a request that was answered before, written before or after the
\* requester has resumed, the body of the reader loop changes no future, and
\* the pending table stays as it is; read on the stdout of the client's
\* child, the line changes no future in the whole step and ends no reader
\* task; a future that is done keeps its outcome as long as its request
\* lasts; and the call_tool that resumes ends with the outcome its future
\* got first.
ThmC31 ==
    /\ [][\A p \in 1..MaxSpawns, id \in 1..MaxRequests :
             ChildExtra(p, "result", id) =>
                 /\ Handle(fut, Line("result", id, <<"extra">>), pending) = fut
                 /\ pending' = pending
                 /\ process = p =>
                       /\ fut' = fut
                       /\ \A r \in DOMAIN readers :
                             readers'[r].state = "failed" => readers[r].state = "failed"]_vars
    /\ [][\A t \in Tasks :
             fut[t].st \in {"result", "exception"} /\ rid'[t] = rid[t]
                 => fut'[t] = fut[t]]_vars
    /\ [][\A t \in Tasks :
             /\ pc[t] = "wait" /\ meth[t] = "tools/call" /\ fut[t].st # "pending"
             /\ pc'[t] = "idle"
             => ret' = IF fut[t].st = "result"
                       THEN Returned("call_tool", fut[t].val, rid[t])
                       ELSE Raised("call_tool", "RuntimeError", fut[t].val[1], rid[t])]_vars

\* The reader task of a connected client has read a second response with
\* the id of a tool call whose future holds the echo of the first response
\* and whose caller has not resumed yet: the future still holds the echo.
WitC31 ==
    /\ status = "connected"
    /\ ret.op = "readline" /\ ret.kind = "result" /\ ret.val = <<process>>
    /\ ret.id \in DOMAIN pending
    /\ LET t == pending[ret.id] IN
          /\ pc[t] = "wait" /\ meth[t] = "tools/call" /\ rid[t] = ret.id
          /\ fut[t] = FutResult(Echo(Args[ret.id]))
    /\ readers[reader_task].state = "reading"
\* C32: in the step in which a request line is written to a child, the id
\* of the request, which was not in the pending table before, is in the
\* pending table with the future of the task that writes, not completed, so
\* that the look-up of a response with this id, made right after the write,
\* finds this future and completes it.
ThmC32 ==
    [][\A p \in DOMAIN procs' : \A req \in procs'[p].open :
          (p \notin DOMAIN procs \/ req \notin procs[p].open) =>
              /\ req.id \notin DOMAIN pending
              /\ req.id \in DOMAIN pending'
              /\ LET t == pending'[req.id]
                     line == Line("result", req.id, ResultFor(req)) IN
                 /\ rid'[t] = req.id
                 /\ meth'[t] = req.method
                 /\ pc'[t] \in {"wait", "drain"}
                 /\ fut'[t] = FutPending
                 /\ Owner(line, pending') = t
                 /\ Handle(fut', line, pending')[t] = FutResult(ResultFor(req))]_vars

\* The request of a tool call has just been written to the child of a
\* connected client on whose stdout the reader task waits: its id, the
\* latest, is in the pending table and its future is not completed.
WitC32 ==
    /\ status = "connected"
    /\ ret = NoRet
    /\ request_id \in DOMAIN pending
    /\ LET t == pending[request_id] IN
          /\ pc[t] = "wait" /\ meth[t] = "tools/call" /\ fut[t] = FutPending
          /\ Request(request_id, "tools/call", Args[request_id]) \in procs[process].open
    /\ Waiting(process) # {}
\* C33: a line that parses as JSON but is no message object does not stop
\* the reader loop: the reader task that has read it on the stdout of the
\* client's child goes on waiting for the next line of this child.
CexC33 ==
    ret.op = "readline" /\ ret.kind = "badshape" /\ ret.val = <<process>>
        => Waiting(process) # {}
\* C34: a capture begins only after the tool call has returned its result;
\* when the create of the chunk store fails, call_tool ends with this
\* exception, returns nothing and adds no row; the call is over then: the
\* capture is not tried again and the tool is not called again, a tool call
\* being made only when call_tool is called.
ThmC34 ==
    /\ [][\A k \in Callers :
             calls[k].at = "capture" /\ calls'[k] # calls[k] =>
                 /\ calls[k].outcome.kind = "return"
                 /\ calls'[k] = NoServiceCall
                 /\ \/ /\ ret' = Raised("service.call_tool", "SQLAlchemyError", "", k)
                       /\ chunks' = chunks
                    \/ /\ ServiceReturns(k)
                       /\ Len(chunks') = Len(chunks) + 1
                       /\ ret'.val.chunk_id = <<chunks'[Len(chunks')].id>>]_vars
    /\ [][\A k \in Callers :
             calls'[k].at = "tool" /\ calls[k].at # "tool" => calls[k].at = "idle"]_vars
    /\ [][\A k \in Callers :
             calls'[k].at = "capture" /\ calls[k].at # "capture" => calls[k].at = "tool"]_vars

\* The call_tool of caller 1 has ended with the failure of the chunk store
\* and no row, while caller 2 waits for the commit of its own capture.
WitC34 ==
    /\ ret = Raised("service.call_tool", "SQLAlchemyError", "", 1)
    /\ calls[1] = NoServiceCall
    /\ calls[2].at = "capture"
    /\ chunks = <<>>
\* C35 (connect() and disconnect() called one at a time): whenever the
\* status is Error the client holds no child that is alive and no reader
\* task that has not ended.
CexC35 ==
    status = "error" =>
        /\ process = NoProc \/ procs[process].state # "running"
        /\ reader_task = NoProc \/ readers[reader_task].state \notin {"new", "reading"}
\* C36: under every interleaving of connect() and disconnect() calls, a
\* client whose status is Connected holds a child process and a reader
\* task; here for the moments at which every call has returned.
CexC36 ==
    status = "connected" /\ (\A t \in Tasks : pc[t] = "idle")
        => process # NoProc /\ reader_task # NoProc
\* The child of the Connected client has exited without a signal from the
\* client and the reader task has ended at the end of its stdout.
ChildGone ==
    /\ status = "connected"
    /\ process # NoProc /\ reader_task # NoProc
    /\ procs[process].state = "exited" /\ ~procs[process].termed
    /\ readers[reader_task].state = "done"

\* C37 (connect() and disconnect() called one at a time; a task whose await
\* has ended runs and the timers fire): when the child of a Connected client
\* has exited on its own and the reader loop has ended, the status leaves
\* Connected.
CexC37 == ChildGone ~> (status # "connected")
\* C38: when register() of a descriptor whose id is registered replaces a
\* client in the map, no child that was spawned for the server is alive.
CexC38 ==
    ret.op = "register" => srv[ret.id].live = 0
\* C39: the id counter never decreases, and no step of disconnect() and no
\* call of connect() changes it; the id of a new request is greater than the
\* counter was and than every id in the pending table, those of requests
\* made on an earlier connection included; and a future that is completed
\* with a result gets the result of its own request, for a tool call the
\* echo of the arguments sent under its own id.
ThmC39 ==
    /\ [][request_id' >= request_id]_vars
    /\ [][\A t \in Tasks :
             DisconnectStep(t) \/ Connect(t) => request_id' = request_id]_vars
    /\ [][\A t \in Tasks :
             NewRequest(t) =>
                 /\ rid'[t] > request_id
                 /\ \A k \in DOMAIN pending : k < rid'[t]
                 /\ \A u \in Tasks \ {t} : rid'[u] # rid'[t]]_vars
    /\ [][\A t \in Tasks :
             fut'[t] # fut[t] /\ fut'[t].st = "result" =>
                 /\ fut[t] = FutPending
                 /\ fut'[t].val =
                       ResultFor(Request(rid[t], meth[t],
                                         IF meth[t] = "tools/call" THEN Args[rid[t]]
                                         ELSE ""))]_vars

\* A tool call made on the first connection is still pending, its child
\* terminated by a disconnect(), while the connect() that came after it has
\* spawned a second child and is at the tools/list request, whose id and
\* that of the initialize before it are greater than the pending one.
WitC39 ==
    \E t, u \in Tasks :
        /\ pc[t] = "wait" /\ meth[t] = "tools/call" /\ fut[t] = FutPending
        /\ rid[t] \in DOMAIN pending
        /\ Len(procs) = 2 /\ process = 2
        /\ procs[1].termed /\ procs[1].state = "exited"
        /\ pc[u] = "wait" /\ meth[u] = "tools/list"
        /\ rid[u] = request_id /\ rid[u] > rid[t] + 1
\* C40: a message without id (a notification) and a response whose id is not
\* in the pending table (an id that no request has, or the id of a request
\* that has ended) change nothing when a reader task reads them: the body of
\* the reader loop changes no future, and the pending table, the status, the
\* catalog and what the client holds stay as they are; read on the stdout of
\* the client's child, the line changes no future in the whole step, and the
\* reader task goes on waiting for the next line, like every other reader
\* task.
ThmC40 ==
    [][/\ ret'.op = "readline"
       /\ \/ ret'.kind = "notify"
          \/ ret'.kind = "result" /\ ret'.id \notin DOMAIN pending
       => /\ Handle(fut, Line(ret'.kind, ret'.id, <<"extra">>), pending) = fut
          /\ UNCHANGED <<pending, status, last_error, tools, process, reader_task,
                         request_id, pc, rid>>
          /\ ret'.val = <<process>> =>
                /\ fut' = fut
                /\ readers' = readers
                /\ Waiting(process)' # {}]_vars

\* The reader task of a connected client has read a response with an id
\* that no request has while a tool call waits for its own response: the
\* future of the call is not completed and the reader task still waits.
WitC40 ==
    /\ status = "connected"
    /\ ret = ReadLine(process, Line("result", UnknownId, <<"extra">>))
    /\ \E t \in Tasks :
          /\ pc[t] = "wait" /\ meth[t] = "tools/call" /\ fut[t] = FutPending
          /\ rid[t] \in DOMAIN pending
    /\ readers[reader_task] = [state |-> "reading", on |-> process]
====
